---- MODULE Spec2Model ----
(***************************************************************************)
(* Model of the token-stream cursor of src/logic/tokenizer.rs over the     *)
(* structure tree of src/model/document/structure.rs.                      *)
(*                                                                         *)
(* Addresses and sizes are counted in bits (addr::unit::BIT is 1), so the  *)
(* arithmetic of the content scan is the code's arithmetic.  Child indices *)
(* are 0-based as in the code; children[i] of the code is n.children[i+1]. *)
(* The frame stack is a sequence, root frame first, top frame last.        *)
(***************************************************************************)
EXTENDS Integers, Sequences, FiniteSets, TLC

VARIABLES tok, tdoc, doc, lastOp, lastRet, selection, list_model, signal

\* the hierarchy view's state: the selection model, a list model and the
\* items_changed notifications the list model has emitted last
hierarchy == <<selection, list_model, signal>>

vars == <<tok, tdoc, doc, lastOp, lastRet, selection, list_model, signal>>

\* no hierarchy view is open
NoHierarchy == selection = <<>> /\ list_model = <<>> /\ signal = <<>>

(***************************************************************************)
(* Bounds of the model.                                                    *)
(***************************************************************************)
MaxSize == 4
MaxChildren == 2

Min(a, b) == IF a <= b THEN a ELSE b
Max(a, b) == IF a >= b THEN a ELSE b

(***************************************************************************)
(* model/addr.rs is not among the sources; Extent is the half-open range   *)
(* [begin, end) the specification describes.                               *)
(***************************************************************************)
NULL == 0
BIT == 1
Extent_sized(begin, size) == [begin |-> begin, end |-> begin + size]
Extent_between(begin, end) == [begin |-> begin, end |-> end]
Extent_includes(e, a) == e.begin <= a /\ a < e.end

(***************************************************************************)
(* structure.rs                                                            *)
(***************************************************************************)
ContentNone == [kind |-> "None", pitch |-> 0]
ContentHexstring == [kind |-> "Hexstring", pitch |-> 0]
ContentHexdump(p) == [kind |-> "Hexdump", pitch |-> p]

Node(name, size, title, chd, cd, children) ==
  [name |-> name, size |-> size, title_display |-> title,
   children_display |-> chd, content_display |-> cd, children |-> children]

Childhood(node, offset) == [node |-> node, offset |-> offset]

Childhood_end(ch) == ch.offset + ch.node.size

\* mutant: a Minor title is set off by blank lines too
has_blanks_unless_inline(td) == td # "Inline"

has_blanks(td) == td = "Major"

is_inline(td) == td = "Inline"

\* Option<Size> as a sequence of length 0 or 1
preferred_pitch(cd) == IF cd.kind = "Hexdump" THEN <<cd.pitch>> ELSE <<>>

(***************************************************************************)
(* TokenizerState, TokenizerDescent                                        *)
(***************************************************************************)
St(tag) == [tag |-> tag, begin |-> 0, end |-> 0, index |-> 0]
PreBlank == St("PreBlank")
Title == St("Title")
MetaContent(offset, index) == [tag |-> "MetaContent", begin |-> offset, end |-> offset, index |-> index]
Hexdump(extent, index) == [tag |-> "Hexdump", begin |-> extent.begin, end |-> extent.end, index |-> index]
Hexstring(extent, index) == [tag |-> "Hexstring", begin |-> extent.begin, end |-> extent.end, index |-> index]
SummaryOpener == St("SummaryOpener")
SummaryLabel(i) == [tag |-> "SummaryLabel", begin |-> 0, end |-> 0, index |-> i]
SummarySeparator(i) == [tag |-> "SummarySeparator", begin |-> 0, end |-> 0, index |-> i]
SummaryCloser == St("SummaryCloser")
SummaryNewline == St("SummaryNewline")
SummaryValueBegin == St("SummaryValueBegin")
SummaryLeaf == St("SummaryLeaf")
SummaryValueEnd == St("SummaryValueEnd")
PostBlank == St("PostBlank")
End == St("End")

Child(i) == [tag |-> "Child", index |-> i]
ChildSummary(i) == [tag |-> "ChildSummary", index |-> i]
MySummary == [tag |-> "MySummary", index |-> 0]

TokenizerStackEntry(descent, depth, node, node_addr) ==
  [descent |-> descent, depth |-> depth, node |-> node, node_addr |-> node_addr]

Tokenizer(stack, state, depth, node, node_addr) ==
  [stack |-> stack, state |-> state, depth |-> depth, node |-> node, node_addr |-> node_addr]

(***************************************************************************)
(* token::Token, TokenGenerationResult, Option<Token>                      *)
(***************************************************************************)
Class(tag) == [tag |-> tag, begin |-> 0, end |-> 0]
ClassExt(tag, extent) == [tag |-> tag, begin |-> extent.begin, end |-> extent.end]

Token(class, node, node_addr, depth, newline) ==
  [class |-> class, node |-> node, node_addr |-> node_addr, depth |-> depth, newline |-> newline]

Ok(token) == [kind |-> "Ok", token |-> token]
Skip == [kind |-> "Skip", token |-> <<>>]
None == [some |-> FALSE, token |-> <<>>]
Some(token) == [some |-> TRUE, token |-> token]

(***************************************************************************)
(* impl TokenizerDescent                                                   *)
(***************************************************************************)
childhood(descent, node) ==
  IF descent.tag = "MySummary" THEN Childhood(node, NULL)
  ELSE node.children[descent.index + 1]

\* mutant: a MySummary descent deepens the nesting as well
depth_change_always(descent) == 1

depth_change(descent) == IF descent.tag = "MySummary" THEN 0 ELSE 1

\* mutant: resuming the parent at the child's end on the way back
before_state_at_end(descent, stack_entry) ==
  CASE descent.tag = "Child" ->
         MetaContent(Childhood_end(stack_entry.node.children[descent.index + 1]), descent.index)
    [] descent.tag = "ChildSummary" -> SummaryLabel(descent.index)
    [] descent.tag = "MySummary" -> Title

before_state(descent, stack_entry) ==
  CASE descent.tag = "Child" ->
         MetaContent(stack_entry.node.children[descent.index + 1].offset, descent.index)
    [] descent.tag = "ChildSummary" -> SummaryLabel(descent.index)
    [] descent.tag = "MySummary" -> Title

\* mutant: a summary line is left without its closing newline
after_state_no_newline(descent, stack_entry) ==
  CASE descent.tag = "Child" ->
         MetaContent(Childhood_end(stack_entry.node.children[descent.index + 1]), descent.index + 1)
    [] descent.tag = "ChildSummary" -> SummarySeparator(descent.index)
    [] descent.tag = "MySummary" -> PostBlank

\* mutant: the parent resumes at the child it has just left
after_state_same_child(descent, stack_entry) ==
  CASE descent.tag = "Child" ->
         MetaContent(stack_entry.node.children[descent.index + 1].offset, descent.index)
    [] descent.tag = "ChildSummary" -> SummarySeparator(descent.index)
    [] descent.tag = "MySummary" -> SummaryNewline

\* mutant: the parent's content resumes where the child began
after_state_at_child_offset(descent, stack_entry) ==
  CASE descent.tag = "Child" ->
         MetaContent(stack_entry.node.children[descent.index + 1].offset, descent.index + 1)
    [] descent.tag = "ChildSummary" -> SummarySeparator(descent.index)
    [] descent.tag = "MySummary" -> SummaryNewline

after_state(descent, stack_entry) ==
  CASE descent.tag = "Child" ->
         MetaContent(Childhood_end(stack_entry.node.children[descent.index + 1]), descent.index + 1)
    [] descent.tag = "ChildSummary" -> SummarySeparator(descent.index)
    [] descent.tag = "MySummary" -> SummaryNewline

\* mutant: a MySummary descent adds a path segment as well
build_path_with_summary(descent, path) == Append(path, descent.index)

build_path(descent, path) ==
  IF descent.tag = "MySummary" THEN path ELSE Append(path, descent.index)

RECURSIVE StackEntry_build_path(_, _)
StackEntry_build_path(stack, path) ==
  IF stack = <<>> THEN path
  ELSE build_path(stack[Len(stack)].descent,
                  StackEntry_build_path(SubSeq(stack, 1, Len(stack) - 1), path))

(***************************************************************************)
(* impl Tokenizer: construction, token generation                          *)
(***************************************************************************)
at_beginning(root) == Tokenizer(<<>>, PreBlank, 0, root, NULL)

at_end(root) == Tokenizer(<<>>, End, 0, root, NULL)

\* mutant: a summary leaf covers the whole node
summary_leaf_limit_whole_node(n) == n.size

\* how much of a childless node its summary leaf shows (16 bytes at most)
summary_leaf_limit(n) == Min(16 * 8, n.size)

gen_token(t) ==
  LET s == t.state
      n == t.node
      Plain(class, newline) == Ok(Token(class, n, t.node_addr, t.depth, newline))
  IN CASE s.tag = "PreBlank" ->
            IF has_blanks(n.title_display) THEN Plain(Class("Empty"), TRUE) ELSE Skip
       [] s.tag = "Title" -> Plain(Class("Title"), ~is_inline(n.title_display))
       [] s.tag = "MetaContent" -> Skip
       [] s.tag = "Hexdump" ->
            Ok(Token(ClassExt("Hexdump", s), n, t.node_addr, t.depth + 1, TRUE))
       [] s.tag = "Hexstring" ->
            Ok(Token(ClassExt("Hexstring", s), n, t.node_addr, t.depth + 1, TRUE))
       [] s.tag = "SummaryOpener" -> Plain(Class("OpenBracket"), FALSE)
       [] s.tag = "SummaryLabel" ->
            LET ch == n.children[s.index + 1]
            IN Ok(Token(Class("SummaryLabel"), ch.node, t.node_addr + ch.offset, t.depth, FALSE))
       [] s.tag = "SummarySeparator" ->
            IF s.index + 1 < Len(n.children) THEN Plain(Class("Comma"), FALSE) ELSE Skip
       [] s.tag = "SummaryCloser" -> Plain(Class("CloseBracket"), FALSE)
       [] s.tag = "SummaryNewline" -> Plain(Class("Empty"), TRUE)
       [] s.tag = "SummaryValueBegin" -> Skip
       [] s.tag = "SummaryLeaf" ->
            LET limit == summary_leaf_limit(n)
                extent == Extent_between(NULL, limit)
            IN Plain(CASE n.content_display.kind = "None" -> Class("Empty")
                       [] n.content_display.kind = "Hexdump" -> ClassExt("Hexdump", extent)
                       [] n.content_display.kind = "Hexstring" -> ClassExt("Hexstring", extent),
                     FALSE)
       [] s.tag = "SummaryValueEnd" -> Skip
       [] s.tag = "PostBlank" ->
            IF has_blanks(n.title_display) THEN Plain(Class("Empty"), TRUE) ELSE Skip
       [] s.tag = "End" -> Skip

(***************************************************************************)
(* descend, try_ascend.  A raw step yields [ok, tok]: the returned bool    *)
(* and the cursor it leaves.                                               *)
(***************************************************************************)
\* mutant: the child's offset is not added to the node address
descend_keeps_addr(t, descent, state_within) ==
  LET ch == childhood(descent, t.node)
      parent_entry == TokenizerStackEntry(descent, t.depth, t.node, t.node_addr)
  IN Tokenizer(Append(t.stack, parent_entry), state_within,
               t.depth + depth_change(descent), ch.node, t.node_addr)

\* mutant: the new frame holds the child instead of the parent left behind
descend_pushes_child(t, descent, state_within) ==
  LET ch == childhood(descent, t.node)
      parent_entry == TokenizerStackEntry(descent, t.depth, ch.node, t.node_addr)
  IN Tokenizer(Append(t.stack, parent_entry), state_within,
               t.depth + depth_change(descent), ch.node, t.node_addr + ch.offset)

descend(t, descent, state_within) ==
  LET ch == childhood(descent, t.node)
      parent_entry == TokenizerStackEntry(descent, t.depth, t.node, t.node_addr)
  IN Tokenizer(Append(t.stack, parent_entry), state_within,
               t.depth + depth_change(descent), ch.node, t.node_addr + ch.offset)

\* mutant: the parent's address is not restored on the way up
try_ascend_keeps_addr(t, dir) ==
  IF t.stack = <<>> THEN [ok |-> FALSE, tok |-> t]
  ELSE LET stack_entry == t.stack[Len(t.stack)]
       IN [ok |-> TRUE,
           tok |-> Tokenizer(SubSeq(t.stack, 1, Len(t.stack) - 1),
                             IF dir = "Prev" THEN before_state(stack_entry.descent, stack_entry)
                                             ELSE after_state(stack_entry.descent, stack_entry),
                             stack_entry.depth, stack_entry.node, t.node_addr)]

\* mutant: the last frame is taken for the end of the stack
try_ascend_stops_early(t, dir) ==
  IF Len(t.stack) <= 1 THEN [ok |-> FALSE, tok |-> t]
  ELSE LET stack_entry == t.stack[Len(t.stack)]
       IN [ok |-> TRUE,
           tok |-> Tokenizer(SubSeq(t.stack, 1, Len(t.stack) - 1),
                             IF dir = "Prev" THEN before_state(stack_entry.descent, stack_entry)
                                             ELSE after_state(stack_entry.descent, stack_entry),
                             stack_entry.depth, stack_entry.node, stack_entry.node_addr)]

\* mutant: the parent always resumes after the child, whatever the direction
try_ascend_always_after(t, dir) ==
  IF t.stack = <<>> THEN [ok |-> FALSE, tok |-> t]
  ELSE LET stack_entry == t.stack[Len(t.stack)]
       IN [ok |-> TRUE,
           tok |-> Tokenizer(SubSeq(t.stack, 1, Len(t.stack) - 1),
                             after_state(stack_entry.descent, stack_entry),
                             stack_entry.depth, stack_entry.node, stack_entry.node_addr)]

try_ascend(t, dir) ==
  IF t.stack = <<>> THEN [ok |-> FALSE, tok |-> t]
  ELSE LET stack_entry == t.stack[Len(t.stack)]
       IN [ok |-> TRUE,
           tok |-> Tokenizer(SubSeq(t.stack, 1, Len(t.stack) - 1),
                             IF dir = "Prev" THEN before_state(stack_entry.descent, stack_entry)
                                             ELSE after_state(stack_entry.descent, stack_entry),
                             stack_entry.depth, stack_entry.node, stack_entry.node_addr)]

Stay(t, state) == [ok |-> TRUE, tok |-> [t EXCEPT !.state = state]]
Went(t) == [ok |-> TRUE, tok |-> t]

(***************************************************************************)
(* The extent of one content line: where it begins (backward) or ends      *)
(* (forward), from the preferred pitch and the limit the neighbouring      *)
(* child or the node's own extent sets.                                    *)
(***************************************************************************)
\* mutant: the line start is rounded from the offset itself, not the bit before it
content_begin_from_offset(cd, offset, limit) ==
  LET pp == preferred_pitch(cd)
  IN IF pp = <<>> THEN limit
     ELSE Max(pp[1] * (offset \div pp[1]), limit)

content_begin(cd, offset, limit) ==
  LET pp == preferred_pitch(cd)
  IN IF pp = <<>> THEN limit
     ELSE Max(pp[1] * ((offset - BIT) \div pp[1]), limit)

\* mutant: a content segment is cut at the pitch counted from the scan offset
content_end_pitch_from_offset(cd, offset, limit) ==
  IF preferred_pitch(cd) = <<>> THEN limit
  ELSE Min(offset + preferred_pitch(cd)[1], limit)

\* mutant: the line end is not clamped to the next child or the node's end
content_end_unclamped(cd, offset, limit) ==
  LET pp == preferred_pitch(cd)
  IN IF pp = <<>> THEN limit
     ELSE pp[1] * ((offset \div pp[1]) + 1)

content_end(cd, offset, limit) ==
  LET pp == preferred_pitch(cd)
  IN IF pp = <<>> THEN limit
     ELSE Min(pp[1] * ((offset \div pp[1]) + 1), limit)

\* mutant: a content line is entered with the index of the child behind it
content_state_behind(cd, extent, limit, index) ==
  CASE cd.kind = "None" -> MetaContent(limit, index)
    [] cd.kind = "Hexdump" -> Hexdump(extent, index + 1)
    [] cd.kind = "Hexstring" -> Hexstring(extent, index + 1)

content_state(cd, extent, limit, index) ==
  CASE cd.kind = "None" -> MetaContent(limit, index)
    [] cd.kind = "Hexdump" -> Hexdump(extent, index)
    [] cd.kind = "Hexstring" -> Hexstring(extent, index)

(***************************************************************************)
(* move_prev, move_next: one raw step of the state machine                 *)
(***************************************************************************)
move_prev(t) ==
  LET s == t.state
      n == t.node
  IN CASE s.tag = "PreBlank" -> try_ascend(t, "Prev")
       [] s.tag = "Title" -> Stay(t, PreBlank)
       [] s.tag = "MetaContent" ->
            LET offset == s.begin
                index == s.index
                has_prev == index # 0
                prev_child == n.children[index]
            IN IF has_prev /\ Childhood_end(prev_child) >= offset
               THEN Went(descend(t, Child(index - 1), End))
               ELSE IF offset > NULL
               THEN LET limit == IF has_prev THEN Childhood_end(prev_child) ELSE NULL
                        begin == content_begin(n.content_display, offset, limit)
                        extent == Extent_between(begin, offset)
                    IN Stay(t, content_state(n.content_display, extent, limit, index))
               ELSE Stay(t, Title)
       [] s.tag = "Hexstring" -> Stay(t, MetaContent(s.begin, s.index))
       [] s.tag = "Hexdump" -> Stay(t, MetaContent(s.begin, s.index))
       [] s.tag = "SummaryOpener" -> try_ascend(t, "Prev")
       [] s.tag = "SummaryLabel" ->
            IF s.index = 0 THEN Stay(t, SummaryOpener)
            ELSE Stay(t, SummarySeparator(s.index - 1))
       [] s.tag = "SummarySeparator" ->
            Went(descend(t, ChildSummary(s.index), SummaryValueEnd))
       [] s.tag = "SummaryCloser" ->
            IF Len(n.children) = 0 THEN Stay(t, SummaryOpener)
            ELSE Stay(t, SummarySeparator(Len(n.children) - 1))
       [] s.tag = "SummaryNewline" -> Went(descend(t, MySummary, SummaryCloser))
       [] s.tag = "SummaryValueBegin" -> try_ascend(t, "Prev")
       [] s.tag = "SummaryLeaf" -> Stay(t, SummaryValueBegin)
       [] s.tag = "SummaryValueEnd" ->
            IF Len(n.children) = 0 THEN Stay(t, SummaryLeaf)
            ELSE Stay(t, SummaryCloser)
       [] s.tag = "PostBlank" ->
            IF n.children_display = "Summary" THEN Stay(t, SummaryNewline)
            ELSE Stay(t, MetaContent(n.size, Len(n.children)))
       [] s.tag = "End" -> Stay(t, PostBlank)

move_next(t) ==
  LET s == t.state
      n == t.node
  IN CASE s.tag = "PreBlank" -> Stay(t, Title)
       [] s.tag = "Title" ->
            IF n.children_display = "Summary"
            THEN Went(descend(t, MySummary, SummaryOpener))
            ELSE Stay(t, MetaContent(NULL, 0))
       [] s.tag = "MetaContent" ->
            LET offset == s.begin
                index == s.index
                has_next == index < Len(n.children)
                next_child == n.children[index + 1]
            IN IF has_next /\ next_child.offset <= offset
               THEN Went(descend(t, Child(index), PreBlank))
               ELSE IF offset < n.size
               THEN LET limit == IF has_next THEN next_child.offset ELSE n.size
                        end == content_end(n.content_display, offset, limit)
                        extent == Extent_between(offset, end)
                    IN Stay(t, content_state(n.content_display, extent, limit, index))
               ELSE Stay(t, PostBlank)
       [] s.tag = "Hexstring" -> Stay(t, MetaContent(s.end, s.index))
       [] s.tag = "Hexdump" -> Stay(t, MetaContent(s.end, s.index))
       [] s.tag = "SummaryOpener" ->
            IF Len(n.children) = 0 THEN Stay(t, SummaryCloser)
            ELSE Stay(t, SummaryLabel(0))
       [] s.tag = "SummaryLabel" ->
            Went(descend(t, ChildSummary(s.index), SummaryValueBegin))
       [] s.tag = "SummarySeparator" ->
            IF Len(n.children) = s.index + 1 THEN Stay(t, SummaryCloser)
            ELSE Stay(t, SummaryLabel(s.index + 1))
       [] s.tag = "SummaryCloser" -> try_ascend(t, "Next")
       [] s.tag = "SummaryNewline" -> Stay(t, PostBlank)
       [] s.tag = "SummaryValueBegin" ->
            IF Len(n.children) = 0 THEN Stay(t, SummaryLeaf)
            ELSE Stay(t, SummaryOpener)
       [] s.tag = "SummaryLeaf" -> Stay(t, SummaryValueEnd)
       [] s.tag = "SummaryValueEnd" -> try_ascend(t, "Next")
       [] s.tag = "PostBlank" -> Stay(t, End)
       [] s.tag = "End" -> try_ascend(t, "Next")

(***************************************************************************)
(* prev, next_preincrement, next_postincrement: the pulls.  A pull yields  *)
(* [tok, ret]: the cursor it leaves and the Option<Token> it returns.      *)
(***************************************************************************)
RECURSIVE prev(_)
prev(t) ==
  LET m == move_prev(t)
  IN IF ~m.ok THEN [tok |-> m.tok, ret |-> None]
     ELSE LET g == gen_token(m.tok)
          IN IF g.kind = "Ok" THEN [tok |-> m.tok, ret |-> Some(g.token)]
             ELSE prev(m.tok)

RECURSIVE next_preincrement(_)
next_preincrement(t) ==
  LET m == move_next(t)
  IN IF ~m.ok THEN [tok |-> m.tok, ret |-> None]
     ELSE LET g == gen_token(m.tok)
          IN IF g.kind = "Ok" THEN [tok |-> m.tok, ret |-> Some(g.token)]
             ELSE next_preincrement(m.tok)

RECURSIVE next_postincrement(_)
next_postincrement(t) ==
  LET token == gen_token(t)
      m == move_next(t)
  IN IF ~m.ok THEN [tok |-> m.tok, ret |-> None]
     ELSE IF token.kind = "Ok" THEN [tok |-> m.tok, ret |-> Some(token.token)]
          ELSE next_postincrement(m.tok)

\* mutant: the stack is not looked at
hit_bottom_any_depth(t) == t.state.tag = "End"

hit_bottom(t) == IF t.state.tag = "End" THEN t.stack = <<>> ELSE FALSE

\* mutant: the stack is not looked at
hit_top_any_depth(t) == t.state.tag = "PreBlank"

hit_top(t) == IF t.state.tag = "PreBlank" THEN t.stack = <<>> ELSE FALSE

structure_path(t) == StackEntry_build_path(t.stack, <<>>)

\* mutant: only the content states report a child index
structure_position_child_content_only(t) ==
  IF t.state.tag \in {"MetaContent", "Hexdump", "Hexstring"} THEN t.state.index ELSE 0

structure_position_child(t) ==
  CASE t.state.tag \in {"MetaContent", "Hexdump", "Hexstring",
                        "SummaryLabel", "SummarySeparator"} -> t.state.index
    [] t.state.tag \in {"SummaryCloser", "PostBlank", "End"} -> Len(t.node.children)
    [] OTHER -> 0

structure_position_offset(t) ==
  IF t.state.tag \in {"MetaContent", "Hexdump", "Hexstring"} THEN t.state.begin ELSE NULL

(***************************************************************************)
(* Change and Document.  model/document/change.rs and the Document type    *)
(* are not among the sources: the two Change kinds are those port_change   *)
(* matches on, their effect on the tree and is_outdated are taken from the *)
(* specification.                                                          *)
(***************************************************************************)
NoNode == Node(<<>>, 0, "Major", "Full", ContentNone, <<>>)
NoProps == [title_display |-> "Major", children_display |-> "Full", content_display |-> ContentNone]

AlterNode(path, props) ==
  [ty |-> "AlterNode", path |-> path, index |-> 0, offset |-> 0, node |-> NoNode, props |-> props]

InsertNode(path, index, offset, node) ==
  [ty |-> "InsertNode", path |-> path, index |-> index, offset |-> offset, node |-> node,
   props |-> NoProps]

Document(root, previous) == [root |-> root, previous |-> previous]

RECURSIVE is_outdated(_, _)
is_outdated(self, other) ==
  /\ other.previous # <<>>
  /\ \/ other.previous[1].doc = self
     \/ is_outdated(self, other.previous[1].doc)

InsertAt(seq, i, x) == SubSeq(seq, 1, i) \o <<x>> \o SubSeq(seq, i + 1, Len(seq))

RECURSIVE NodeAt(_, _)
NodeAt(node, path) ==
  IF path = <<>> THEN node ELSE NodeAt(node.children[path[1] + 1].node, Tail(path))

RECURSIVE Rebuild(_, _, _)
Rebuild(node, path, new) ==
  IF path = <<>> THEN new
  ELSE [node EXCEPT !.children[path[1] + 1].node =
                      Rebuild(node.children[path[1] + 1].node, Tail(path), new)]

apply(change, root) ==
  LET target == NodeAt(root, change.path)
  IN IF change.ty = "AlterNode"
     THEN Rebuild(root, change.path,
                  [target EXCEPT !.title_display = change.props.title_display,
                                 !.children_display = change.props.children_display,
                                 !.content_display = change.props.content_display])
     ELSE Rebuild(root, change.path,
                  [target EXCEPT !.children =
                     InsertAt(target.children, change.index,
                              Childhood(change.node, change.offset))])

(***************************************************************************)
(* Cursor rebasing: port_stack_entry, port_recurse, port_change, port_doc. *)
(* port_recurse yields [stack, node, path]: the ported frames, the node    *)
(* the top frame leads to and that node's path.                            *)
(***************************************************************************)
\* mutant: a ported frame keeps the node of the old tree
port_stack_entry_keeps_node(old_tok, current_path, new_node, change) ==
  LET old == old_tok.descent
      descent == IF /\ old.tag \in {"Child", "ChildSummary"}
                    /\ change.ty = "InsertNode"
                    /\ change.path = current_path
                    /\ old.index >= change.index
                 THEN [old EXCEPT !.index = old.index + 1]
                 ELSE old
  IN [entry |-> TokenizerStackEntry(descent, old_tok.depth, old_tok.node, old_tok.node_addr),
      node |-> childhood(descent, new_node).node,
      path |-> build_path(descent, current_path)]

\* mutant: a frame's index is bumped only when strictly above the insertion index
port_stack_entry_strict(old_tok, current_path, new_node, change) ==
  LET old == old_tok.descent
      descent == IF /\ old.tag \in {"Child", "ChildSummary"}
                    /\ change.ty = "InsertNode"
                    /\ change.path = current_path
                    /\ old.index > change.index
                 THEN [old EXCEPT !.index = old.index + 1]
                 ELSE old
  IN [entry |-> TokenizerStackEntry(descent, old_tok.depth, new_node, old_tok.node_addr),
      node |-> childhood(descent, new_node).node,
      path |-> build_path(descent, current_path)]

port_stack_entry(old_tok, current_path, new_node, change) ==
  LET old == old_tok.descent
      descent == IF /\ old.tag \in {"Child", "ChildSummary"}
                    /\ change.ty = "InsertNode"
                    /\ change.path = current_path
                    /\ old.index >= change.index
                 THEN [old EXCEPT !.index = old.index + 1]
                 ELSE old
  IN [entry |-> TokenizerStackEntry(descent, old_tok.depth, new_node, old_tok.node_addr),
      node |-> childhood(descent, new_node).node,
      path |-> build_path(descent, current_path)]

RECURSIVE port_recurse(_, _, _)
port_recurse(stack, new_root, change) ==
  IF Len(stack) = 1
  THEN LET e == port_stack_entry(stack[1], <<>>, new_root, change)
       IN [stack |-> <<e.entry>>, node |-> e.node, path |-> e.path]
  ELSE LET up == port_recurse(SubSeq(stack, 1, Len(stack) - 1), new_root, change)
           e == port_stack_entry(stack[Len(stack)], up.path, up.node, change)
       IN [stack |-> Append(up.stack, e.entry), node |-> e.node, path |-> e.path]

\* mutant: a content leaf is normalized to the end of its segment
normalize_state_from_end(state) ==
  IF state.tag \in {"Hexdump", "Hexstring"} THEN MetaContent(state.end, state.index)
  ELSE state

normalize_state(state) ==
  IF state.tag \in {"Hexdump", "Hexstring"} THEN MetaContent(state.begin, state.index)
  ELSE state

\* mutant: the leaf fixups run for every Change that names the leaf's node
port_leaf_state_any_change(new_state, new_path, change) ==
  IF change.path = new_path
  THEN CASE /\ new_state.tag = "MetaContent"
            /\ Extent_includes(Extent_sized(change.offset, change.node.size), new_state.begin) ->
              MetaContent(change.offset, change.index)
         [] /\ new_state.tag = "MetaContent"
            /\ ~Extent_includes(Extent_sized(change.offset, change.node.size), new_state.begin)
            /\ (change.offset + change.node.size) < new_state.begin
            /\ new_state.index >= change.index ->
              MetaContent(new_state.begin, new_state.index + 1)
         [] /\ new_state.tag \in {"SummaryLabel", "SummarySeparator"}
            /\ new_state.index > change.index ->
              [new_state EXCEPT !.index = new_state.index + 1]
         [] OTHER -> new_state
  ELSE new_state

port_leaf_state(new_state, new_path, change) ==
  IF change.ty = "InsertNode" /\ change.path = new_path
  THEN CASE /\ new_state.tag = "MetaContent"
            /\ Extent_includes(Extent_sized(change.offset, change.node.size), new_state.begin) ->
              MetaContent(change.offset, change.index)
         [] /\ new_state.tag = "MetaContent"
            /\ ~Extent_includes(Extent_sized(change.offset, change.node.size), new_state.begin)
            /\ (change.offset + change.node.size) < new_state.begin
            /\ new_state.index >= change.index ->
              MetaContent(new_state.begin, new_state.index + 1)
         [] /\ new_state.tag \in {"SummaryLabel", "SummarySeparator"}
            /\ new_state.index > change.index ->
              [new_state EXCEPT !.index = new_state.index + 1]
         [] OTHER -> new_state
  ELSE new_state

\* mutant: the focused node is not looked up again in the new tree
port_change_keeps_node(t, new_root, change) ==
  LET ported == IF t.stack # <<>> THEN port_recurse(t.stack, new_root, change)
                ELSE [stack |-> <<>>, node |-> new_root, path |-> <<>>]
      new_state == port_leaf_state(normalize_state(t.state), ported.path, change)
  IN Tokenizer(ported.stack, new_state, t.depth, t.node, t.node_addr)

\* mutant: the ported Tokenizer starts over at the root's address
port_change_resets_addr(t, new_root, change) ==
  LET ported == IF t.stack # <<>> THEN port_recurse(t.stack, new_root, change)
                ELSE [stack |-> <<>>, node |-> new_root, path |-> <<>>]
      new_state == port_leaf_state(normalize_state(t.state), ported.path, change)
  IN Tokenizer(ported.stack, new_state, t.depth, ported.node, NULL)

port_change(t, new_root, change) ==
  LET ported == IF t.stack # <<>> THEN port_recurse(t.stack, new_root, change)
                ELSE [stack |-> <<>>, node |-> new_root, path |-> <<>>]
      new_state == port_leaf_state(normalize_state(t.state), ported.path, change)
  IN Tokenizer(ported.stack, new_state, t.depth, ported.node, t.node_addr)

\* one call port_doc makes: port_change(new_root, change)
PortCall(new_root, change) == [root |-> new_root, change |-> change]

\* mutant: every Change of the chain is applied, whatever old_doc is
RECURSIVE port_doc_replays(_, _, _)
port_doc_replays(t, old_doc, new_doc) ==
  IF new_doc.previous # <<>>
  THEN LET r == port_doc_replays(t, old_doc, new_doc.previous[1].doc)
       IN [tok |-> port_change(r.tok, new_doc.root, new_doc.previous[1].change),
           panic |-> FALSE,
           calls |-> Append(r.calls, PortCall(new_doc.root, new_doc.previous[1].change))]
  ELSE [tok |-> t, panic |-> FALSE, calls |-> <<>>]

\* mutant: a Change is applied before the older Changes of the chain
RECURSIVE port_doc_newest_first(_, _, _)
port_doc_newest_first(t, old_doc, new_doc) ==
  IF is_outdated(old_doc, new_doc)
  THEN IF new_doc.previous # <<>>
       THEN LET first == port_change(t, new_doc.root, new_doc.previous[1].change)
                r == port_doc_newest_first(first, old_doc, new_doc.previous[1].doc)
            IN [r EXCEPT !.calls = <<PortCall(new_doc.root, new_doc.previous[1].change)>> \o @]
       ELSE [tok |-> t, panic |-> TRUE, calls |-> <<>>]
  ELSE [tok |-> t, panic |-> FALSE, calls |-> <<>>]

\* port_doc yields [tok, panic, calls]: the cursor, whether "no common
\* ancestor" was hit, and the port_change calls made, in the order made
RECURSIVE port_doc(_, _, _)
port_doc(t, old_doc, new_doc) ==
  IF is_outdated(old_doc, new_doc)
  THEN IF new_doc.previous # <<>>
       THEN LET r == port_doc(t, old_doc, new_doc.previous[1].doc)
            IN IF r.panic THEN r
               ELSE [tok |-> port_change(r.tok, new_doc.root, new_doc.previous[1].change),
                     panic |-> FALSE,
                     calls |-> Append(r.calls,
                                      PortCall(new_doc.root, new_doc.previous[1].change))]
       ELSE [tok |-> t, panic |-> TRUE, calls |-> <<>>]
  ELSE [tok |-> t, panic |-> FALSE, calls |-> <<>>]

(***************************************************************************)
(* The structure trees the cursor is walked over.  Every tree is valid:    *)
(* children sorted by offset, not overlapping, inside the parent, and a    *)
(* Hexdump pitch above zero.  A node's name is its path at construction.   *)
(***************************************************************************)
Style(title, chd, cd) == [title_display |-> title, children_display |-> chd, content_display |-> cd]

MkNode(style, size, children) ==
  Node(<<>>, size, style.title_display, style.children_display, style.content_display, children)

StyleA == Style("Major", "Full", ContentHexdump(2))
StyleB == Style("Minor", "Full", ContentHexstring)
StyleC == Style("Inline", "Summary", ContentNone)

RootStyles ==
  { Style("Major", "Full", ContentHexdump(2)), Style("Minor", "Summary", ContentHexstring),
    Style("Inline", "None", ContentNone), Style("Minor", "Full", ContentNone),
    Style("Major", "Summary", ContentHexdump(3)), Style("Inline", "Full", ContentHexstring) }

LeafNodes ==
  { MkNode(StyleA, 0, <<>>), MkNode(StyleB, 1, <<>>) }

InnerNodes ==
  { MkNode(StyleA, 3, <<Childhood(MkNode(StyleB, 1, <<>>), 1)>>),
    MkNode(StyleC, 2, <<Childhood(MkNode(StyleA, 1, <<>>), 0),
                        Childhood(MkNode(StyleB, 1, <<>>), 1)>>) }

ChildNodes == LeafNodes \cup InnerNodes

ValidChildren(size, ch) ==
  /\ \A i \in 1..Len(ch) : Childhood_end(ch[i]) <= size
  /\ \A i \in 1..(Len(ch) - 1) : Childhood_end(ch[i]) <= ch[i + 1].offset

Layouts(size) ==
  UNION { { ch \in [1..n -> [node : ChildNodes, offset : 0..size]] : ValidChildren(size, ch) }
          : n \in 0..MaxChildren }

RECURSIVE Label(_, _)
Label(n, path) ==
  [n EXCEPT !.name = path,
            !.children = [i \in 1..Len(n.children) |->
                            Childhood(Label(n.children[i].node, Append(path, i - 1)),
                                      n.children[i].offset)]]

\* the tree of tests::hardcoded (sizes given in bytes there)
Bytes(n) == 8 * n

HardcodedRoot ==
  Label(MkNode(Style("Major", "Full", ContentHexdump(Bytes(16))), Bytes(112),
               <<Childhood(MkNode(Style("Major", "Full", ContentHexdump(Bytes(16))), Bytes(24), <<>>),
                           Bytes(50))>>),
        <<>>)

\* a summary line whose leaves are longer than, as long as and shorter than
\* what a summary leaf shows, with each content display
SummaryRoot ==
  Label(MkNode(Style("Minor", "Summary", ContentHexstring), Bytes(48),
               <<Childhood(MkNode(Style("Major", "Full", ContentHexdump(Bytes(16))), Bytes(24), <<>>),
                           Bytes(0)),
                 Childhood(MkNode(Style("Minor", "Full", ContentHexstring), Bytes(16),
                                  <<Childhood(MkNode(Style("Inline", "Full", ContentNone), Bytes(1), <<>>),
                                              Bytes(2)),
                                    Childhood(MkNode(Style("Minor", "Full", ContentHexstring), Bytes(8), <<>>),
                                              Bytes(4))>>),
                           Bytes(24))>>),
        <<>>)

Trees ==
  UNION { { Label(MkNode(s, z, ch), <<>>) : s \in RootStyles, ch \in Layouts(z) }
          : z \in {0, MaxSize} }
  \cup {HardcodedRoot, SummaryRoot}

(***************************************************************************)
(* The state machine: a consumer holding one Tokenizer anchored to tdoc.   *)
(***************************************************************************)
Init ==
  \E root \in Trees :
    /\ doc = Document(root, <<>>)
    /\ tdoc = doc
    /\ \/ tok = at_beginning(root) /\ lastOp = "at_beginning"
       \/ tok = at_end(root) /\ lastOp = "at_end"
    /\ lastRet = None
    /\ NoHierarchy

MoveNext ==
  /\ tok' = move_next(tok).tok
  /\ lastOp' = "move_next"
  /\ lastRet' = None
  /\ UNCHANGED <<tdoc, doc>>
  /\ UNCHANGED hierarchy

MovePrev ==
  /\ tok' = move_prev(tok).tok
  /\ lastOp' = "move_prev"
  /\ lastRet' = None
  /\ UNCHANGED <<tdoc, doc>>
  /\ UNCHANGED hierarchy

Prev ==
  /\ tok' = prev(tok).tok
  /\ lastOp' = "prev"
  /\ lastRet' = prev(tok).ret
  /\ UNCHANGED <<tdoc, doc>>
  /\ UNCHANGED hierarchy

NextPreincrement ==
  /\ tok' = next_preincrement(tok).tok
  /\ lastOp' = "next_preincrement"
  /\ lastRet' = next_preincrement(tok).ret
  /\ UNCHANGED <<tdoc, doc>>
  /\ UNCHANGED hierarchy

NextPostincrement ==
  /\ tok' = next_postincrement(tok).tok
  /\ lastOp' = "next_postincrement"
  /\ lastRet' = next_postincrement(tok).ret
  /\ UNCHANGED <<tdoc, doc>>
  /\ UNCHANGED hierarchy

Next == MoveNext \/ MovePrev \/ Prev \/ NextPreincrement \/ NextPostincrement

Spec == Init /\ [][Next]_vars

(***************************************************************************)
(* Editing: the document advances by one valid Change at a time, and the   *)
(* consumer ports its Tokenizer to the newest Document before it pulls     *)
(* again.                                                                  *)
(***************************************************************************)
MaxChanges == 1

PortTrees ==
  { Label(MkNode(StyleA, 4, <<>>), <<>>),
    Label(MkNode(StyleA, 4, <<Childhood(MkNode(StyleB, 1, <<>>), 1)>>), <<>>),
    Label(MkNode(StyleB, 4, <<Childhood(MkNode(StyleA, 0, <<>>), 1),
                              Childhood(MkNode(StyleA, 2, <<>>), 2)>>), <<>>),
    Label(MkNode(StyleA, 4, <<Childhood(MkNode(StyleA, 3, <<Childhood(MkNode(StyleB, 1, <<>>), 1)>>),
                                        1)>>), <<>>),
    Label(MkNode(Style("Major", "Summary", ContentHexstring), 4,
                 <<Childhood(MkNode(StyleA, 1, <<>>), 0),
                   Childhood(MkNode(StyleB, 2, <<Childhood(MkNode(StyleA, 1, <<>>), 1)>>), 2)>>),
          <<>>) }

NewNodes ==
  { Node(<<100>>, 1, "Major", "Full", ContentHexdump(2), <<>>),
    Node(<<101>>, 0, "Minor", "Full", ContentHexstring, <<>>),
    Node(<<102>>, 2, "Minor", "Full", ContentHexdump(2), <<>>) }

AlterProps == { Style("Minor", "Summary", ContentHexstring), Style("Major", "Full", ContentHexdump(3)) }

RECURSIVE AllPaths(_)
AllPaths(node) ==
  {<<>>} \cup UNION { { <<i - 1>> \o q : q \in AllPaths(node.children[i].node) }
                      : i \in 1..Len(node.children) }

InsertsAt(root, path) ==
  LET target == NodeAt(root, path)
  IN { InsertNode(path, i, o, n) :
         i \in 0..Len(target.children), o \in 0..target.size, n \in NewNodes }

Changes(root) ==
  { AlterNode(path, props) : path \in AllPaths(root), props \in AlterProps }
  \cup { c \in UNION { InsertsAt(root, path) : path \in AllPaths(root) } :
           ValidChildren(NodeAt(root, c.path).size, NodeAt(apply(c, root), c.path).children) }

RECURSIVE ChainLen(_)
ChainLen(d) == IF d.previous = <<>> THEN 0 ELSE 1 + ChainLen(d.previous[1].doc)

InitPort ==
  \E root \in PortTrees :
    /\ doc = Document(root, <<>>)
    /\ tdoc = doc
    /\ \/ tok = at_beginning(root) /\ lastOp = "at_beginning"
       \/ tok = at_end(root) /\ lastOp = "at_end"
    /\ lastRet = None
    /\ NoHierarchy

Edit ==
  /\ ChainLen(doc) < MaxChanges
  /\ \E change \in Changes(doc.root) :
       doc' = Document(apply(change, doc.root), <<[doc |-> doc, change |-> change]>>)
  /\ UNCHANGED <<tok, tdoc, lastOp, lastRet>>
  /\ UNCHANGED hierarchy

PortDoc ==
  /\ lastOp # "panic"
  /\ tok' = port_doc(tok, tdoc, doc).tok
  /\ tdoc' = doc
  /\ lastOp' = IF port_doc(tok, tdoc, doc).panic THEN "panic" ELSE "port_doc"
  /\ lastRet' = None
  /\ UNCHANGED doc
  /\ UNCHANGED hierarchy

Pull == tdoc = doc /\ lastOp # "panic" /\ (Prev \/ NextPreincrement \/ NextPostincrement)

NextPort == Pull \/ Edit \/ PortDoc

SpecPort == InitPort /\ [][NextPort]_vars

(***************************************************************************)
(* Version chains: several Changes may pile up before the consumer ports,  *)
(* and the application may replace the Document by one that shares no      *)
(* history with the Tokenizer's (a Document opened anew) or go back to an  *)
(* older one.                                                              *)
(***************************************************************************)
MaxChain == 2

ChainTrees ==
  { Label(MkNode(StyleA, 2, <<Childhood(MkNode(StyleB, 1, <<>>), 1)>>), <<>>),
    Label(MkNode(Style("Minor", "Summary", ContentNone), 2,
                 <<Childhood(MkNode(StyleB, 1, <<>>), 0)>>), <<>>) }

ChainChanges(root) ==
  { c \in Changes(root) :
      \/ c.ty = "AlterNode" /\ c.path = <<>> /\ c.props = Style("Major", "Full", ContentHexdump(3))
      \/ c.ty = "InsertNode" /\ c.node.name = <<101>> }

\* the Tokenizer's frames and focus lie in the tree of the Document it is anchored to
RootOf(t) == IF t.stack = <<>> THEN t.node ELSE t.stack[1].node

Anchored == lastOp # "panic" /\ RootOf(tok) = tdoc.root

InitChain ==
  \E root \in ChainTrees :
    /\ doc = Document(root, <<>>)
    /\ tdoc = doc
    /\ \/ tok = at_beginning(root) /\ lastOp = "at_beginning"
       \/ tok = at_end(root) /\ lastOp = "at_end"
    /\ lastRet = None
    /\ NoHierarchy

EditChain ==
  /\ ChainLen(doc) < MaxChain
  /\ is_outdated(tdoc, doc) \/ tdoc = doc
  /\ \E change \in ChainChanges(doc.root) :
       doc' = Document(apply(change, doc.root), <<[doc |-> doc, change |-> change]>>)
  /\ UNCHANGED <<tok, tdoc, lastOp, lastRet>>
  /\ UNCHANGED hierarchy

Reopen ==
  /\ \E root \in ChainTrees : root # tdoc.root /\ doc' = Document(root, <<>>)
  /\ UNCHANGED <<tok, tdoc, lastOp, lastRet>>
  /\ UNCHANGED hierarchy

Undo ==
  /\ tdoc = doc /\ doc.previous # <<>>
  /\ doc' = doc.previous[1].doc
  /\ UNCHANGED <<tok, tdoc, lastOp, lastRet>>
  /\ UNCHANGED hierarchy

NextChain == Anchored /\ (Pull \/ EditChain \/ Reopen \/ Undo \/ PortDoc)

SpecChain == InitChain /\ [][NextChain]_vars

(***************************************************************************)
(* Full walks, as tests::test_forward and tests::test_backward take them.  *)
(***************************************************************************)
RECURSIVE ForwardWalk(_)
ForwardWalk(t) ==
  LET r == next_postincrement(t)
  IN IF r.ret.some THEN <<r.ret.token>> \o ForwardWalk(r.tok) ELSE <<>>

RECURSIVE BackwardWalk(_)
BackwardWalk(t) ==
  LET r == prev(t)
  IN IF r.ret.some THEN <<r.ret.token>> \o BackwardWalk(r.tok) ELSE <<>>

Reverse(seq) == [i \in 1..Len(seq) |-> seq[Len(seq) + 1 - i]]

AtExtreme(t) == hit_top(t) \/ hit_bottom(t)

\* the positions a consumer can reach: constructors and pulls
PublicOps == {"at_beginning", "at_end", "prev", "next_preincrement", "next_postincrement"}

\* C1: on every valid tree the forward walk from at_beginning is the
\* reverse of the backward walk from at_end (evaluated where a walk begins
\* or has ended).
C1_ForwardIsReverseOfBackward ==
  AtExtreme(tok) =>
    ForwardWalk(at_beginning(doc.root)) = Reverse(BackwardWalk(at_end(doc.root)))

C1_Witness ==
  /\ lastOp = "next_postincrement" /\ ~lastRet.some /\ hit_bottom(tok)
  /\ Len(doc.root.children) = 2
  /\ doc.root.children_display = "Summary"
  /\ Len(ForwardWalk(at_beginning(doc.root))) >= 12

\* C2: a token returned by next_postincrement is returned again by an
\* immediately following prev and by the next_postincrement after that;
\* and symmetrically for prev, next_postincrement, prev.
C2_PullsInvertOnTokens ==
  /\ LET a == next_postincrement(tok)
         b == prev(a.tok)
         c == next_postincrement(b.tok)
     IN a.ret.some => b.ret = a.ret /\ c.ret = a.ret
  /\ LET a == prev(tok)
         b == next_postincrement(a.tok)
         c == prev(b.tok)
     IN a.ret.some => b.ret = a.ret /\ c.ret = a.ret

C2_Witness ==
  /\ lastOp = "prev" /\ lastRet.some
  /\ lastRet.token.class.tag = "CloseBracket"
  /\ Len(tok.stack) = 2
  /\ next_postincrement(tok).ret = lastRet
  /\ Len(next_postincrement(tok).tok.stack) = 1

\* C3 as claimed: from every position that is not a stream extreme, prev
\* then next_postincrement restore the whole cursor and return one token.
C3_AnyPositionRoundTrip ==
  (lastOp \in PublicOps /\ ~AtExtreme(tok)) =>
    LET a == prev(tok)
        b == next_postincrement(a.tok)
    IN b.tok = tok /\ a.ret = b.ret

\* C4 as claimed: from every position that is not a stream extreme,
\* next_preincrement then prev restore the whole cursor, and prev returns
\* the token of the original position.
C4_AnyPositionRoundTrip ==
  (lastOp \in PublicOps /\ ~AtExtreme(tok)) =>
    LET a == next_preincrement(tok)
        b == prev(a.tok)
    IN b.tok = tok /\ gen_token(tok).kind = "Ok" /\ b.ret = Some(gen_token(tok).token)

\* C3 (amended): at a position reached by a next_postincrement that
\* returned a token (the cursor is a border just past that token), prev
\* then next_postincrement restore the whole cursor (state, node, address,
\* depth, stack) and both return the same token.
C3_BorderRoundTrip ==
  (lastOp = "next_postincrement" /\ lastRet.some) =>
    LET a == prev(tok)
        b == next_postincrement(a.tok)
    IN b.tok = tok /\ a.ret.some /\ a.ret = b.ret

C3_Witness ==
  /\ lastOp = "next_postincrement" /\ lastRet.some
  /\ tok.state.tag = "SummarySeparator"
  /\ Len(prev(tok).tok.stack) = Len(tok.stack) + 1
  /\ next_postincrement(prev(tok).tok).tok = tok

\* C4 (amended): at a position reached by a prev or a next_preincrement
\* that returned a token (the cursor sits on that token), next_preincrement
\* then prev restore the whole cursor, and prev returns the token of the
\* original position.
C4_ElementRoundTrip ==
  (lastOp \in {"prev", "next_preincrement"} /\ lastRet.some) =>
    LET a == next_preincrement(tok)
        b == prev(a.tok)
    IN b.tok = tok /\ b.ret = lastRet /\ b.ret = Some(gen_token(tok).token)

C4_Witness ==
  /\ lastOp = "next_preincrement" /\ lastRet.some
  /\ tok.state.tag = "Hexdump"
  /\ next_preincrement(tok).ret.some
  /\ Len(next_preincrement(tok).tok.stack) = Len(tok.stack) + 1
  /\ prev(next_preincrement(tok).tok).tok = tok

(***************************************************************************)
(* tests::hardcoded: the expected token list, without the depth column.    *)
(***************************************************************************)
TokenView(token) ==
  [class |-> token.class, name |-> token.node.name,
   node_addr |-> token.node_addr, newline |-> token.newline]

Views(tokens) == [i \in 1..Len(tokens) |-> TokenView(tokens[i])]

Expect(class, name, addr) ==
  [class |-> class, name |-> name, node_addr |-> addr, newline |-> TRUE]

ExpectHexdump(b, e, name, addr) ==
  Expect(ClassExt("Hexdump", Extent_between(Bytes(b), Bytes(e))), name, addr)

HardcodedExpected ==
  << Expect(Class("Empty"), <<>>, 0),
     Expect(Class("Title"), <<>>, 0),
     ExpectHexdump(0, 16, <<>>, 0),
     ExpectHexdump(16, 32, <<>>, 0),
     ExpectHexdump(32, 48, <<>>, 0),
     ExpectHexdump(48, 50, <<>>, 0),
     Expect(Class("Empty"), <<0>>, Bytes(50)),
     Expect(Class("Title"), <<0>>, Bytes(50)),
     ExpectHexdump(0, 16, <<0>>, Bytes(50)),
     ExpectHexdump(16, 24, <<0>>, Bytes(50)),
     Expect(Class("Empty"), <<0>>, Bytes(50)),
     ExpectHexdump(74, 80, <<>>, 0),
     ExpectHexdump(80, 96, <<>>, 0),
     ExpectHexdump(96, 112, <<>>, 0),
     Expect(Class("Empty"), <<>>, 0) >>

\* C5: the hardcoded tree (root 0x70 bytes, child of 0x18 bytes at 0x32)
\* walks forward as the fifteen expected tokens (class and extent, owner,
\* node address, newline) and backward as the same list reversed.
C5_HardcodedWalk ==
  doc.root = HardcodedRoot =>
    /\ Views(ForwardWalk(at_beginning(doc.root))) = HardcodedExpected
    /\ Views(BackwardWalk(at_end(doc.root))) = Reverse(HardcodedExpected)

C5_Witness ==
  /\ doc.root = HardcodedRoot
  /\ lastOp = "next_postincrement" /\ ~lastRet.some /\ hit_bottom(tok)

\* C6: hit_top is exactly "empty stack and PreBlank" and then no token lies
\* before the cursor; hit_bottom is exactly "empty stack and End" and then
\* no token lies after it; at_beginning is at the top, at_end at the bottom.
C6_ExtremesAreExact ==
  /\ hit_top(tok) = (tok.stack = <<>> /\ tok.state.tag = "PreBlank")
  /\ hit_bottom(tok) = (tok.stack = <<>> /\ tok.state.tag = "End")
  /\ hit_top(tok) => ~prev(tok).ret.some
  /\ hit_bottom(tok) => ~next_postincrement(tok).ret.some /\ ~next_preincrement(tok).ret.some
  /\ lastOp = "at_beginning" => hit_top(tok)
  /\ lastOp = "at_end" => hit_bottom(tok)

C6_Witness ==
  /\ lastOp = "prev" /\ ~lastRet.some /\ hit_top(tok)
  /\ doc.root.title_display # "Major"
  /\ Len(doc.root.children) > 0

\* C7: move_prev fails only at PreBlank with an empty stack and move_next
\* only at End with an empty stack; a pull that returns None leaves the
\* cursor at the matching extreme and has passed over no visible token.
C7_FalseOnlyAtExtremes ==
  /\ move_prev(tok).ok = ~(tok.stack = <<>> /\ tok.state.tag = "PreBlank")
  /\ move_next(tok).ok = ~(tok.stack = <<>> /\ tok.state.tag = "End")
  /\ ~prev(tok).ret.some => hit_top(prev(tok).tok) /\ BackwardWalk(tok) = <<>>
  /\ ~next_preincrement(tok).ret.some => hit_bottom(next_preincrement(tok).tok)
  /\ ~next_postincrement(tok).ret.some =>
       /\ hit_bottom(next_postincrement(tok).tok)
       /\ gen_token(tok).kind = "Skip"
       /\ ~next_preincrement(tok).ret.some

C7_Witness ==
  /\ lastOp = "next_preincrement" /\ ~lastRet.some
  /\ hit_bottom(tok) /\ ~move_next(tok).ok
  /\ doc.root.title_display = "Minor"
  /\ Len(doc.root.children) > 0

(***************************************************************************)
(* Porting across the one Change between tdoc and doc.                     *)
(***************************************************************************)
OneChangePending == doc.previous # <<>> /\ doc.previous[1].doc = tdoc /\ tdoc # doc

PendingChange == doc.previous[1].change

Ported == port_doc(tok, tdoc, doc).tok

\* C8: porting from a Document to that same Document changes nothing of
\* the Tokenizer, whatever its leaf state, and does not fail.
C8_PortToSameDocIsNoOp ==
  /\ port_doc(tok, tdoc, tdoc) = [tok |-> tok, panic |-> FALSE, calls |-> <<>>]
  /\ port_doc(tok, doc, doc) = [tok |-> tok, panic |-> FALSE, calls |-> <<>>]

C8_Witness ==
  /\ lastOp = "port_doc" /\ tdoc = doc /\ doc.previous # <<>>
  /\ tok.state.tag = "Hexdump" /\ tok.stack # <<>>

\* C9: a leaf in the content scan of node P at offset o, ported across an
\* InsertNode into P whose extent contains o, descends into the new child
\* on the next move_next: focus on new_node at PreBlank, Child(index) on top.
C9_InsertContainingScan ==
  PendingChange.ty = "InsertNode"
  /\ tok.state.tag \in {"MetaContent", "Hexdump", "Hexstring"}
  /\ Extent_includes(Extent_sized(PendingChange.offset, PendingChange.node.size), tok.state.begin)

C9_PoisedToDescend ==
  (OneChangePending /\ PendingChange.path = structure_path(tok) /\ C9_InsertContainingScan) =>
    LET m == move_next(Ported)
    IN /\ m.ok
       /\ m.tok.node = PendingChange.node
       /\ m.tok.state = PreBlank
       /\ m.tok.stack # <<>>
       /\ m.tok.stack[Len(m.tok.stack)].descent = Child(PendingChange.index)
       /\ m.tok.stack[Len(m.tok.stack)].node = NodeAt(doc.root, PendingChange.path)

C9_Witness ==
  /\ OneChangePending /\ PendingChange.path = structure_path(tok) /\ C9_InsertContainingScan
  /\ tok.state.tag = "Hexdump"
  /\ tok.state.begin > PendingChange.offset
  /\ move_next(Ported).tok.node = PendingChange.node

(***************************************************************************)
(* The token a cursor produces next, the cursor position it is produced    *)
(* at, and where the token's owner lies in a tree.                         *)
(***************************************************************************)
RECURSIVE TokenPosition(_)
TokenPosition(t) ==
  IF gen_token(t).kind = "Ok" \/ ~move_next(t).ok THEN t
  ELSE TokenPosition(move_next(t).tok)

OwnerPath(t) ==
  IF t.state.tag = "SummaryLabel" THEN Append(structure_path(t), t.state.index)
  ELSE structure_path(t)

IsPrefix(p, q) == Len(p) <= Len(q) /\ SubSeq(q, 1, Len(p)) = p

\* the path in the new tree of the node that had `path` before the Change
PathAfter(path, change) ==
  IF /\ change.ty = "InsertNode"
     /\ IsPrefix(change.path, path) /\ Len(path) > Len(change.path)
     /\ path[Len(change.path) + 1] >= change.index
  THEN [path EXCEPT ![Len(change.path) + 1] = @ + 1]
  ELSE path

RECURSIVE AbsoluteAddr(_, _)
AbsoluteAddr(node, path) ==
  IF path = <<>> THEN NULL
  ELSE node.children[path[1] + 1].offset
       + AbsoluteAddr(node.children[path[1] + 1].node, Tail(path))

NextToken(t) == next_postincrement(t).ret

CorrespondingToken(before, after, owner_before, owner_after) ==
  /\ after.some
  /\ after.token.class = before.token.class
  /\ after.token.node.name = before.token.node.name
  /\ after.token.depth = before.token.depth
  /\ owner_after = PathAfter(owner_before, PendingChange)
  /\ after.token.node = NodeAt(doc.root, owner_after)
  /\ after.token.node_addr = AbsoluteAddr(doc.root, owner_after)

OnToken(t) == gen_token(t).kind = "Ok"

\* the leaf labels child i of the parent the Change inserts into, at the
\* insertion index itself
LabelAtInsertionIndex ==
  /\ PendingChange.ty = "InsertNode"
  /\ tok.state.tag = "SummaryLabel"
  /\ PendingChange.path = structure_path(tok)
  /\ PendingChange.index = tok.state.index

\* C10: a Tokenizer positioned on a token K owned by a node that the Change
\* neither alters nor inserts into produces as its next token, after
\* porting, the token that corresponds to K: same class and extent, same
\* owner (by name, at its path as the Change moved it), same depth, and the
\* owner's absolute address in the new tree.
C10_NextTokenCorresponds ==
  (OneChangePending /\ OnToken(tok) /\ OwnerPath(tok) # PendingChange.path) =>
    CorrespondingToken(Some(gen_token(tok).token), NextToken(Ported),
                       OwnerPath(tok), OwnerPath(TokenPosition(Ported)))

\* the same correspondence, leaving out a SummaryLabel(i) leaf ported across
\* an insertion into its parent at index i (port_change bumps the label's
\* index only when it is strictly greater than the insertion index)
C10_ExceptLabelAtInsertionIndex ==
  (OneChangePending /\ OnToken(tok) /\ OwnerPath(tok) # PendingChange.path
     /\ ~LabelAtInsertionIndex) =>
    CorrespondingToken(Some(gen_token(tok).token), NextToken(Ported),
                       OwnerPath(tok), OwnerPath(TokenPosition(Ported)))

(***************************************************************************)
(* The stream around a cursor: the tokens behind it, oldest first, followed *)
(* by the tokens ahead of it.                                              *)
(***************************************************************************)
StreamAround(t) == Reverse(BackwardWalk(t)) \o ForwardWalk(t)

FullStream(root) == ForwardWalk(at_beginning(root))

\* C11: after porting across one AlterNode or InsertNode Change, walking
\* backward to the start and forward to the end from the ported cursor gives
\* exactly the token stream of the new Document.
C11_PortedCursorIsValid ==
  OneChangePending => StreamAround(Ported) = FullStream(doc.root)

\* without a Change in between, every reachable cursor has this property
C11_CursorIsValid ==
  (tdoc = doc /\ doc.previous = <<>>) => StreamAround(tok) = FullStream(doc.root)

(***************************************************************************)
(* The version chain of a Document, oldest Document first.                 *)
(***************************************************************************)
RECURSIVE ChainDocs(_)
ChainDocs(d) ==
  IF d.previous = <<>> THEN <<d>> ELSE Append(ChainDocs(d.previous[1].doc), d)

\* the Changes lying between old and its descendant new, oldest first, each
\* with the root of the Document it produced
ChangesBetween(old, new) ==
  LET ds == ChainDocs(new)
      k == CHOOSE i \in 1..Len(ds) : ds[i] = old
  IN [j \in 1..(Len(ds) - k) |-> PortCall(ds[k + j].root, ds[k + j].previous[1].change)]

\* C12: when old_doc is a strict ancestor of new_doc, port_doc calls
\* port_change once per Change lying between them, oldest first, each with
\* the root of the Document that Change produced, and with no Change at or
\* before old_doc.
C12_ChangesAppliedOldestFirst ==
  (Anchored /\ is_outdated(tdoc, doc)) =>
    LET r == port_doc(tok, tdoc, doc)
    IN ~r.panic /\ r.calls = ChangesBetween(tdoc, doc)

C12_Witness ==
  /\ Anchored /\ is_outdated(tdoc, doc)
  /\ tdoc.previous # <<>>
  /\ ChainLen(doc) = ChainLen(tdoc) + 1
  /\ doc.previous[1].change # tdoc.previous[1].change
  /\ Ported # tok

C12_WitnessTwoChanges ==
  /\ Anchored /\ is_outdated(tdoc, doc)
  /\ ChainLen(doc) = ChainLen(tdoc) + 2
  /\ doc.previous[1].change.ty = "AlterNode"
  /\ doc.previous[1].doc.previous[1].change.ty = "InsertNode"
  /\ Ported.stack # tok.stack

C13_NoCommonAncestorReturns ==
  (Anchored /\ tdoc # doc /\ ~is_outdated(tdoc, doc)) =>
    port_doc(tok, tdoc, doc) = [tok |-> tok, panic |-> FALSE, calls |-> <<>>]

(***************************************************************************)
(* Frames before and after porting across the pending Change.              *)
(***************************************************************************)
\* the path of the node that frame k of a stack holds
FramePath(stack, k) == StackEntry_build_path(SubSeq(stack, 1, k - 1), <<>>)

FrameBumped(k) ==
  /\ tok.stack[k].descent.tag \in {"Child", "ChildSummary"}
  /\ PendingChange.ty = "InsertNode"
  /\ PendingChange.path = FramePath(Ported.stack, k)
  /\ PendingChange.index <= tok.stack[k].descent.index

\* C14: porting bumps the index of a Child(i)/ChildSummary(i) frame by one
\* exactly when the Change inserts into that frame's node, at its ported
\* path, at an index <= i; every other frame keeps its descent, MySummary
\* always; each frame's path is that of its already ported ancestors.
C14_FrameIndexBumps ==
  OneChangePending =>
    /\ Len(Ported.stack) = Len(tok.stack)
    /\ \A k \in 1..Len(tok.stack) :
         /\ Ported.stack[k].descent.tag = tok.stack[k].descent.tag
         /\ Ported.stack[k].descent.index =
              IF FrameBumped(k) THEN tok.stack[k].descent.index + 1
              ELSE tok.stack[k].descent.index
         /\ FramePath(Ported.stack, k) = PathAfter(FramePath(tok.stack, k), PendingChange)

C14_Witness ==
  /\ OneChangePending
  /\ Len(tok.stack) >= 2
  /\ \E k \in 1..Len(tok.stack) :
       /\ FrameBumped(k)
       /\ PendingChange.index = tok.stack[k].descent.index
       /\ Ported.stack[k].descent.index = tok.stack[k].descent.index + 1
  /\ \E k \in 1..Len(tok.stack) : ~FrameBumped(k)

\* C15: after porting, every frame holds the node found in the new tree at
\* the frame's ported path and the focused node is the node found in the new
\* tree at structure_path(); across an InsertNode the focused node is the
\* same logical node (same name) as before.
C15_NodesResolvedInNewTree ==
  OneChangePending =>
    /\ \A k \in 1..Len(Ported.stack) :
         Ported.stack[k].node = NodeAt(doc.root, FramePath(Ported.stack, k))
    /\ Ported.node = NodeAt(doc.root, structure_path(Ported))
    /\ PendingChange.ty = "InsertNode" => Ported.node.name = tok.node.name

C15_Witness ==
  /\ OneChangePending
  /\ PendingChange.ty = "InsertNode"
  /\ Len(tok.stack) >= 2
  /\ PendingChange.path = FramePath(tok.stack, Len(tok.stack))
  /\ Ported.stack[Len(tok.stack)].node # tok.stack[Len(tok.stack)].node
  /\ structure_path(Ported) # structure_path(tok)
  /\ Ported.node = tok.node

\* C16: porting across an AlterNode applies no index or offset fixup:
\* structure_path, structure_position_child, structure_position_offset,
\* depth, node address and every frame's descent are as before, and the
\* node a following gen_token reads is the node of the new tree.
C16_AlterNodeKeepsPosition ==
  (OneChangePending /\ PendingChange.ty = "AlterNode") =>
    /\ structure_path(Ported) = structure_path(tok)
    /\ structure_position_child(Ported) = structure_position_child(tok)
    /\ structure_position_offset(Ported) = structure_position_offset(tok)
    /\ Ported.depth = tok.depth
    /\ Ported.node_addr = tok.node_addr
    /\ [k \in 1..Len(Ported.stack) |-> Ported.stack[k].descent]
         = [k \in 1..Len(tok.stack) |-> tok.stack[k].descent]
    /\ Ported.node = NodeAt(doc.root, structure_path(tok))
    /\ gen_token(Ported).kind = "Ok" =>
         gen_token(Ported).token.node = NodeAt(doc.root, OwnerPath(tok))

C16_Witness ==
  /\ OneChangePending /\ PendingChange.ty = "AlterNode"
  /\ PendingChange.path = structure_path(tok)
  /\ tok.stack # <<>>
  /\ tok.state.tag = "Hexdump" /\ tok.state.begin > 0 /\ tok.state.index > 0
  /\ Ported.node.content_display # tok.node.content_display

\* the token is a content segment of node that begins at offset
ContentSegmentAt(ret, node, offset) ==
  /\ ret.some
  /\ ret.token.class.tag \in {"Hexdump", "Hexstring"}
  /\ ret.token.class.begin = offset
  /\ ret.token.node = node

OnContent(t) == t.state.tag \in {"Hexdump", "Hexstring"}

\* the Change-specific fixups of port_change apply: an InsertNode into the leaf's node
FixupsApply == PendingChange.ty = "InsertNode" /\ PendingChange.path = structure_path(Ported)

ValidPosition == StreamAround(tok) = FullStream(tdoc.root)

InsertsIntoLeafNode ==
  /\ OneChangePending
  /\ PendingChange.ty = "InsertNode"
  /\ PendingChange.path = structure_path(tok)

InsertedEnd == PendingChange.offset + PendingChange.node.size

\* C18: a leaf MetaContent(o, i) ported across an InsertNode into its node
\* whose extent lies entirely before o (offset + size <= o), with i >= index,
\* becomes MetaContent(o, i + 1), and the next forward step does not descend
\* into the new sibling.
C18_InsertedBeforeBumpsIndex ==
  (InsertsIntoLeafNode /\ tok.state.tag = "MetaContent"
     /\ InsertedEnd <= tok.state.begin /\ tok.state.index >= PendingChange.index) =>
    /\ Ported.state = MetaContent(tok.state.begin, tok.state.index + 1)
    /\ move_next(Ported).tok.node # PendingChange.node

\* what port_change does: the index is bumped when the new sibling ends
\* strictly before o
C18_InsertedStrictlyBeforeBumpsIndex ==
  (InsertsIntoLeafNode /\ tok.state.tag = "MetaContent"
     /\ InsertedEnd < tok.state.begin /\ tok.state.index >= PendingChange.index) =>
    /\ Ported.state = MetaContent(tok.state.begin, tok.state.index + 1)
    /\ move_next(Ported).tok.node # PendingChange.node

OnSummaryItem(t) == t.state.tag \in {"SummaryLabel", "SummarySeparator"}

\* the child a SummaryLabel(i)/SummarySeparator(i) leaf stands at
SummaryItemChild(t) == t.node.children[t.state.index + 1].node

\* C19: a leaf SummaryLabel(i) or SummarySeparator(i) ported across an
\* InsertNode into its node gets index i + 1 when the insertion index is
\* <= i, so that it stands at the same child as before, and keeps i otherwise.
C19_SummaryItemFollowsChild ==
  (InsertsIntoLeafNode /\ OnSummaryItem(tok)) =>
    /\ Ported.state.tag = tok.state.tag
    /\ Ported.state.index =
         IF PendingChange.index <= tok.state.index THEN tok.state.index + 1
         ELSE tok.state.index
    /\ tok.state.index < Len(tok.node.children) =>
         SummaryItemChild(Ported).name = SummaryItemChild(tok).name

\* what port_change does: the index is bumped when strictly above the insertion index
C19_SummaryItemBumpedAboveIndex ==
  (InsertsIntoLeafNode /\ OnSummaryItem(tok)) =>
    /\ Ported.state.tag = tok.state.tag
    /\ Ported.state.index =
         IF PendingChange.index < tok.state.index THEN tok.state.index + 1
         ELSE tok.state.index

(***************************************************************************)
(* move_next from the content scan.                                        *)
(***************************************************************************)
HasNextChild(t) == t.state.index < Len(t.node.children)

NextChildOffset(t) == t.node.children[t.state.index + 1].offset

ScanLimit(t) == IF HasNextChild(t) THEN NextChildOffset(t) ELSE t.node.size

\* the first address above offset that is a multiple of the pitch or the limit
SegmentEnd(t) ==
  LET cd == t.node.content_display
      offset == t.state.begin
  IN IF cd.kind = "Hexdump"
     THEN CHOOSE e \in (offset + 1)..ScanLimit(t) :
            /\ e % cd.pitch = 0 \/ e = ScanLimit(t)
            /\ \A f \in (offset + 1)..(e - 1) : f % cd.pitch # 0
     ELSE ScanLimit(t)

\* C20: move_next from MetaContent(offset, i) (a) descends into children[i]
\* at PreBlank when that child begins at or before offset; (b) else, when
\* offset < node.size, moves to the content segment from offset to the next
\* pitch multiple above offset or the limit (next child's offset, else
\* node.size), whichever is first; Hexstring runs to the limit, content
\* display None skips to the limit; (c) else moves to PostBlank. An emitted
\* segment is never empty.
C20_MetaContentStep ==
  tok.state.tag = "MetaContent" =>
    LET m == move_next(tok)
        offset == tok.state.begin
        i == tok.state.index
        cd == tok.node.content_display
    IN /\ m.ok
       /\ IF HasNextChild(tok) /\ NextChildOffset(tok) <= offset
          THEN /\ m.tok.node = tok.node.children[i + 1].node
               /\ m.tok.state = PreBlank
               /\ m.tok.stack = Append(tok.stack,
                    TokenizerStackEntry(Child(i), tok.depth, tok.node, tok.node_addr))
               /\ m.tok.node_addr = tok.node_addr + NextChildOffset(tok)
          ELSE IF offset < tok.node.size
          THEN /\ m.tok.node = tok.node /\ m.tok.stack = tok.stack
               /\ m.tok.state =
                    CASE cd.kind = "Hexdump" ->
                           Hexdump(Extent_between(offset, SegmentEnd(tok)), i)
                      [] cd.kind = "Hexstring" ->
                           Hexstring(Extent_between(offset, ScanLimit(tok)), i)
                      [] OTHER -> MetaContent(ScanLimit(tok), i)
               /\ m.tok.state.tag # "MetaContent" => m.tok.state.begin < m.tok.state.end
          ELSE m.tok = [tok EXCEPT !.state = PostBlank]

C20_Witness ==
  /\ tok.state.tag = "MetaContent"
  /\ tok.node.content_display.kind = "Hexdump"
  /\ tok.stack = <<>>
  /\ HasNextChild(tok) /\ NextChildOffset(tok) > tok.state.begin
  /\ move_next(tok).tok.state.tag = "Hexdump"
  /\ move_next(tok).tok.state.end = NextChildOffset(tok)
  /\ move_next(tok).tok.state.end % tok.node.content_display.pitch # 0

(***************************************************************************)
(* Display properties.                                                     *)
(***************************************************************************)
\* C21: the children of a node whose children_display is None are
\* suppressed: the cursor never stands below such a node, so no token of a
\* descendant of it is produced.
C21_NoneSuppressesChildren ==
  \A k \in 1..Len(tok.stack) :
    tok.stack[k].node.children_display = "None" =>
      tok.stack[k].descent.tag \notin {"Child", "ChildSummary"}

\* what the walk does: below a None node the cursor descends as below a Full one
C21_NoneWalkedAsFull ==
  (tok.node.children_display = "None" /\ tok.state.tag = "MetaContent"
     /\ HasNextChild(tok) /\ NextChildOffset(tok) <= tok.state.begin) =>
    /\ move_next(tok).tok.node = tok.node.children[tok.state.index + 1].node
    /\ move_next(tok).tok.state = PreBlank

(***************************************************************************)
(* Summaries.  The tokens a node in summary position and a node displayed  *)
(* with children_display Summary are expected to give, as views.           *)
(***************************************************************************)
View(class, node, addr, newline) ==
  [class |-> class, name |-> node.name, node_addr |-> addr, newline |-> newline]

SummaryLeafClass(node) ==
  LET extent == Extent_between(NULL, Min(Bytes(16), node.size))
  IN CASE node.content_display.kind = "Hexdump" -> ClassExt("Hexdump", extent)
       [] node.content_display.kind = "Hexstring" -> ClassExt("Hexstring", extent)
       [] OTHER -> Class("Empty")

RECURSIVE SummaryValue(_, _), SummaryItems(_, _, _)
\* the summary value of a node visited in summary mode
SummaryValue(node, addr) ==
  IF node.children = <<>>
  THEN <<View(SummaryLeafClass(node), node, addr, FALSE)>>
  ELSE <<View(Class("OpenBracket"), node, addr, FALSE)>>
       \o SummaryItems(node, addr, 1)
       \o <<View(Class("CloseBracket"), node, addr, FALSE)>>

\* label, value and comma of the children of node from the i-th on
SummaryItems(node, addr, i) ==
  IF i > Len(node.children) THEN <<>>
  ELSE LET ch == node.children[i]
       IN <<View(Class("SummaryLabel"), ch.node, addr + ch.offset, FALSE)>>
          \o SummaryValue(ch.node, addr + ch.offset)
          \o (IF i < Len(node.children)
              THEN <<View(Class("Comma"), node, addr, FALSE)>> ELSE <<>>)
          \o SummaryItems(node, addr, i + 1)

\* the line of a node displayed with children_display Summary
SummaryLine(node, addr) ==
  <<View(Class("OpenBracket"), node, addr, FALSE)>>
  \o SummaryItems(node, addr, 1)
  \o <<View(Class("CloseBracket"), node, addr, FALSE), View(Class("Empty"), node, addr, TRUE)>>

\* the tokens produced from t up to the PostBlank of the node whose frames are stack
RECURSIVE WalkToPostBlank(_, _)
WalkToPostBlank(t, stack) ==
  IF t.state.tag = "PostBlank" /\ t.stack = stack THEN <<>>
  ELSE LET g == gen_token(t)
           m == move_next(t)
       IN (IF g.kind = "Ok" THEN <<g.token>> ELSE <<>>)
          \o (IF m.ok THEN WalkToPostBlank(m.tok, stack) ELSE <<>>)

OnSummaryTitle == tok.state.tag = "Title" /\ tok.node.children_display = "Summary"

\* C22: between the title and the post-blank of a node with
\* children_display Summary the forward stream is one OpenBracket, for each
\* child in order its SummaryLabel and its summary value, a Comma after
\* every child but the last, one CloseBracket and one Empty token with
\* newline; nothing of the node's own content.
C22_SummaryLine ==
  OnSummaryTitle =>
    Views(WalkToPostBlank(move_next(tok).tok, tok.stack)) = SummaryLine(tok.node, tok.node_addr)

C22_Witness ==
  /\ OnSummaryTitle
  /\ tok.stack # <<>>
  /\ Len(tok.node.children) = 2
  /\ tok.node.size > 0
  /\ Len(WalkToPostBlank(move_next(tok).tok, tok.stack)) = 8

C22_WitnessNested ==
  /\ OnSummaryTitle
  /\ \E i \in 1..Len(tok.node.children) : tok.node.children[i].node.children # <<>>
  /\ Views(WalkToPostBlank(move_next(tok).tok, tok.stack)) = SummaryLine(tok.node, tok.node_addr)

\* the tokens produced from t until the frame on top of stack is left
RECURSIVE WalkToAscend(_, _)
WalkToAscend(t, stack) ==
  IF Len(t.stack) < Len(stack) THEN <<>>
  ELSE LET g == gen_token(t)
           m == move_next(t)
       IN (IF g.kind = "Ok" THEN <<g.token>> ELSE <<>>)
          \o (IF m.ok THEN WalkToAscend(m.tok, stack) ELSE <<>>)

EnteringSummaryValue == tok.state.tag = "SummaryValueBegin"

\* C23: a childless node visited in summary mode gives exactly one token,
\* without newline, of the class of its content_display (Empty for None)
\* over [0, min(16 bytes, size)); a node with children gives its bracketed
\* summary and no leaf token of its own.
C23_SummaryValue ==
  EnteringSummaryValue =>
    LET tokens == Views(WalkToAscend(tok, tok.stack))
    IN /\ tokens = SummaryValue(tok.node, tok.node_addr)
       /\ tok.node.children = <<>> =>
            tokens = <<View(SummaryLeafClass(tok.node), tok.node, tok.node_addr, FALSE)>>
       /\ tok.node.children # <<>> =>
            /\ tokens[1].class = Class("OpenBracket")
            /\ tokens[Len(tokens)].class = Class("CloseBracket")
            /\ \A i \in 1..Len(tokens) :
                 tokens[i].name = tok.node.name =>
                   tokens[i].class.tag \in {"OpenBracket", "Comma", "CloseBracket"}

C23_Witness ==
  /\ EnteringSummaryValue
  /\ tok.node.children = <<>>
  /\ tok.node.size > Bytes(16)
  /\ Views(WalkToAscend(tok, tok.stack))
       = <<View(ClassExt("Hexdump", Extent_between(NULL, Bytes(16))), tok.node, tok.node_addr, FALSE)>>

\* an Empty token with newline owned by the focused node, at its depth
BlankToken(t) == Ok(Token(Class("Empty"), t.node, t.node_addr, t.depth, TRUE))

\* C24: PreBlank and PostBlank produce an Empty token with newline exactly
\* when the node's title_display is Major and are skipped for Minor and
\* Inline; Title always produces a token, with newline exactly when
\* title_display is not Inline.
C24_BlanksAndTitle ==
  /\ tok.state.tag \in {"PreBlank", "PostBlank"} =>
       /\ tok.node.title_display = "Major" => gen_token(tok) = BlankToken(tok)
       /\ tok.node.title_display # "Major" => gen_token(tok) = Skip
  /\ tok.state.tag = "PreBlank" =>
       LET first == next_postincrement(tok).ret
       IN /\ first.some /\ first.token.node = tok.node
          /\ first.token.class.tag = IF tok.node.title_display = "Major" THEN "Empty" ELSE "Title"
  /\ tok.state.tag = "Title" =>
       /\ gen_token(tok).kind = "Ok"
       /\ gen_token(tok).token.class = Class("Title")
       /\ gen_token(tok).token.node = tok.node
       /\ gen_token(tok).token.newline = (tok.node.title_display # "Inline")

C24_Witness ==
  /\ tok.state.tag = "PostBlank"
  /\ tok.stack # <<>>
  /\ tok.node.title_display = "Minor"
  /\ tok.stack[Len(tok.stack)].node.title_display = "Major"
  /\ lastOp = "move_prev"
  /\ gen_token(tok) = Skip
  /\ prev(tok).ret.some /\ prev(tok).ret.token.node = tok.node

\* the nesting level of a token's owner, as tests::hardcoded expects its depth
ExpectedDepth(token) == Len(token.node.name)

\* C25: the content tokens of a node have the depth of its blank and title
\* tokens, its nesting level: walking the hardcoded tree, every token of the
\* root has depth 0 and every token of the child depth 1.
C25_ContentDepth ==
  /\ OnContent(tok) => gen_token(tok).token.depth = tok.depth
  /\ doc.root = HardcodedRoot =>
       LET walk == ForwardWalk(at_beginning(doc.root))
       IN \A i \in 1..Len(walk) : walk[i].depth = ExpectedDepth(walk[i])

\* what gen_token does: content tokens are one level deeper than the node's
\* blank and title tokens
C25_ContentOneDeeper ==
  /\ OnContent(tok) => gen_token(tok).token.depth = tok.depth + 1
  /\ doc.root = HardcodedRoot =>
       LET walk == ForwardWalk(at_beginning(doc.root))
       IN \A i \in 1..Len(walk) :
            walk[i].depth = IF walk[i].class.tag = "Hexdump" THEN ExpectedDepth(walk[i]) + 1
                            ELSE ExpectedDepth(walk[i])

(***************************************************************************)
(* Position queries.                                                       *)
(***************************************************************************)
\* the child indices of the Child/ChildSummary frames, root frame first
RECURSIVE ChildIndices(_)
ChildIndices(stack) ==
  IF stack = <<>> THEN <<>>
  ELSE (IF Head(stack).descent.tag \in {"Child", "ChildSummary"}
        THEN <<Head(stack).descent.index>> ELSE <<>>)
       \o ChildIndices(Tail(stack))

\* C26: structure_path() is the child indices of the Child/ChildSummary
\* frames from the root frame to the top frame, nothing for MySummary
\* frames, and that path leads from the root of the anchored tree to the
\* focused node.
C26_StructurePath ==
  /\ structure_path(tok) = ChildIndices(tok.stack)
  /\ NodeAt(tdoc.root, structure_path(tok)) = tok.node

C26_Witness ==
  /\ Len(tok.stack) = 3
  /\ tok.stack[1].descent = MySummary
  /\ tok.stack[2].descent.tag = "ChildSummary" /\ tok.stack[2].descent.index = 1
  /\ tok.stack[3].descent.tag = "ChildSummary"
  /\ Len(structure_path(tok)) = 2
  /\ tok.node.name = structure_path(tok)

SummaryStates ==
  {"SummaryOpener", "SummaryLabel", "SummarySeparator", "SummaryCloser", "SummaryNewline",
   "SummaryValueBegin", "SummaryLeaf", "SummaryValueEnd"}

ContentStates == {"MetaContent", "Hexdump", "Hexstring"}

CarriedPosition ==
  tok.state.tag \in ContentStates =>
    /\ structure_position_child(tok) = tok.state.index
    /\ structure_position_offset(tok) = tok.state.begin

\* C27 as stated: the content states report the child index and scan offset
\* they carry, and every summary sub-state reports child 0 and offset NULL.
C27_SummaryStatesReportDefault ==
  /\ CarriedPosition
  /\ tok.state.tag \in SummaryStates =>
       /\ structure_position_child(tok) = 0
       /\ structure_position_offset(tok) = NULL

\* C27 amended: the content states report the child index and scan offset
\* they carry; SummaryLabel(i) and SummarySeparator(i) report child i (the
\* child a label's token belongs to), SummaryCloser the number of children,
\* the other summary sub-states child 0; every summary sub-state reports
\* offset NULL.
C27_PositionQueries ==
  /\ CarriedPosition
  /\ tok.state.tag \in SummaryStates =>
       /\ structure_position_offset(tok) = NULL
       /\ structure_position_child(tok) =
            CASE tok.state.tag \in {"SummaryLabel", "SummarySeparator"} -> tok.state.index
              [] tok.state.tag = "SummaryCloser" -> Len(tok.node.children)
              [] OTHER -> 0
       /\ tok.state.tag = "SummaryLabel" =>
            gen_token(tok).token.node = tok.node.children[structure_position_child(tok) + 1].node

C27_Witness ==
  /\ tok.state.tag = "SummaryLabel"
  /\ structure_position_child(tok) = 1
  /\ structure_position_offset(tok) = NULL
  /\ gen_token(tok).token.node.name = Append(structure_path(tok), 1)

(***************************************************************************)
(* C29: termination of the pulls and of repeated pulls.                    *)
(***************************************************************************)
\* the loop of one pull, followed until it returns; FALSE when the loop
\* comes back to a cursor it has already been at
RECURSIVE PullReturns(_, _, _)
PullReturns(op, t, seen) ==
  LET m == IF op = "prev" THEN move_prev(t) ELSE move_next(t)
      at == IF op = "next_postincrement" THEN t ELSE m.tok
  IN IF ~m.ok \/ gen_token(at).kind = "Ok" THEN TRUE
     ELSE IF m.tok \in seen THEN FALSE
     ELSE PullReturns(op, m.tok, seen \cup {m.tok})

\* next_postincrement() repeated until it returns None; ended is FALSE
\* when a call leaves the cursor where an earlier call had left it
RECURSIVE RepeatNext(_, _)
RepeatNext(t, seen) ==
  LET r == next_postincrement(t)
  IN IF ~r.ret.some THEN [ended |-> TRUE, tok |-> r.tok, calls |-> Cardinality(seen)]
     ELSE IF r.tok \in seen THEN [ended |-> FALSE, tok |-> r.tok, calls |-> Cardinality(seen)]
     ELSE RepeatNext(r.tok, seen \cup {r.tok})

\* prev() repeated until it returns None
RECURSIVE RepeatPrev(_, _)
RepeatPrev(t, seen) ==
  LET r == prev(t)
  IN IF ~r.ret.some THEN [ended |-> TRUE, tok |-> r.tok, calls |-> Cardinality(seen)]
     ELSE IF r.tok \in seen THEN [ended |-> FALSE, tok |-> r.tok, calls |-> Cardinality(seen)]
     ELSE RepeatPrev(r.tok, seen \cup {r.tok})

\* C29: from every position a walk reaches, each pull returns, repeated
\* next_postincrement() ends with None at hit_bottom() and repeated prev()
\* ends with None at hit_top(); no pull loop and no run of pulls comes
\* back to a cursor it has been at.
C29_PullsTerminate ==
  /\ \A op \in {"prev", "next_preincrement", "next_postincrement"} :
       PullReturns(op, tok, {tok})
  /\ LET down == RepeatNext(tok, {tok})
     IN down.ended /\ hit_bottom(down.tok)
  /\ LET up == RepeatPrev(tok, {tok})
     IN up.ended /\ hit_top(up.tok)

\* a skip state inside a child, several tokens away from both ends
C29_Witness ==
  /\ tok.stack # <<>>
  /\ gen_token(tok).kind = "Skip"
  /\ lastOp \in {"move_next", "move_prev"}
  /\ RepeatNext(tok, {tok}).calls >= 3
  /\ RepeatPrev(tok, {tok}).calls >= 3
  /\ hit_bottom(RepeatNext(tok, {tok}).tok)
  /\ hit_top(RepeatPrev(tok, {tok}).tok)

(***************************************************************************)
(* C30: the frame stack is a chain from the root to the focused node.      *)
(***************************************************************************)
\* the node the frame above frame k holds; the focused node for the top frame
NodeAbove(t, k) == IF k < Len(t.stack) THEN t.stack[k + 1].node ELSE t.node

\* frame k's descent, applied to frame k's node, exists and yields the node above
FrameLinks(t, k) ==
  LET e == t.stack[k]
  IN /\ e.descent.tag # "MySummary" => e.descent.index < Len(e.node.children)
     /\ childhood(e.descent, e.node).node = NodeAbove(t, k)
     /\ e.descent.tag = "MySummary" => NodeAbove(t, k) = e.node

StackIsChain(t, root) ==
  /\ t.stack = <<>> => t.node = root
  /\ t.stack # <<>> => t.stack[1].node = root
  /\ \A k \in 1..Len(t.stack) : FrameLinks(t, k)

\* C30: after any sequence of pulls and ports the bottom frame's node is
\* the root of the anchored tree, each frame's descent applied to its node
\* yields the node of the frame above it (the same node for MySummary), the
\* top frame's descent yields the focused node, and with an empty stack the
\* focused node is the root.
C30_StackIsChain == lastOp # "panic" => StackIsChain(tok, tdoc.root)

\* a cursor two frames deep that was ported across a Change and pulled again
C30_Witness ==
  /\ tdoc.previous # <<>>
  /\ lastOp \in {"prev", "next_preincrement", "next_postincrement"}
  /\ Len(tok.stack) >= 2
  /\ StackIsChain(tok, tdoc.root)

\* a ported cursor inside a summary, over a MySummary frame
C30_WitnessSummary ==
  /\ tdoc.previous # <<>>
  /\ lastOp = "port_doc"
  /\ \E k \in 1..Len(tok.stack) : tok.stack[k].descent.tag = "MySummary"
  /\ StackIsChain(tok, tdoc.root)

(***************************************************************************)
(* C31: depth counts the Child and ChildSummary frames.                    *)
(***************************************************************************)
\* the Child and ChildSummary frames among the lowest k frames of the stack
DeepeningFrames(stack, k) ==
  Cardinality({ j \in 1..k : stack[j].descent.tag # "MySummary" })

DepthCountsFrames(t) ==
  /\ t.depth = DeepeningFrames(t.stack, Len(t.stack))
  /\ \A k \in 1..Len(t.stack) : t.stack[k].depth = DeepeningFrames(t.stack, k - 1)

\* C31: after any sequence of pulls and ports the cursor's depth is the
\* number of Child and ChildSummary frames on its stack (MySummary frames
\* add nothing), and each frame's stored depth is the number of such
\* frames below it.
C31_DepthCountsFrames == lastOp # "panic" => DepthCountsFrames(tok)

\* a ported cursor in a summarized child: a MySummary frame under a
\* ChildSummary frame, so the stack is higher than the depth
C31_Witness ==
  /\ tdoc.previous # <<>>
  /\ lastOp # "panic"
  /\ Len(tok.stack) >= 2
  /\ tok.stack[1].descent.tag = "MySummary"
  /\ tok.stack[2].descent.tag = "ChildSummary"
  /\ tok.depth = 1
  /\ DepthCountsFrames(tok)

(***************************************************************************)
(* C32: node_addr is the absolute address of the focused node.             *)
(***************************************************************************)
AddressesAreAbsolute(t, root) ==
  /\ t.node_addr = AbsoluteAddr(root, structure_path(t))
  /\ \A k \in 1..Len(t.stack) :
       t.stack[k].node_addr = AbsoluteAddr(root, ChildIndices(SubSeq(t.stack, 1, k - 1)))
  /\ gen_token(t).kind = "Ok" =>
       /\ gen_token(t).token.node = NodeAt(root, OwnerPath(t))
       /\ gen_token(t).token.node_addr = AbsoluteAddr(root, OwnerPath(t))

\* C32: after any sequence of pulls and ports the cursor's node_addr is
\* the sum of the child offsets along structure_path() in the anchored
\* tree, and the token it produces carries the absolute address of its
\* owning node (for SummaryLabel(i) the parent's address plus child i's
\* offset).
C32_AddressesAreAbsolute == lastOp # "panic" => AddressesAreAbsolute(tok, tdoc.root)

\* a ported cursor on a SummaryLabel of a child that lies at a non-zero
\* address
C32_Witness ==
  /\ tdoc.previous # <<>>
  /\ lastOp = "port_doc"
  /\ tok.state.tag = "SummaryLabel"
  /\ gen_token(tok).token.node_addr > tok.node_addr
  /\ AddressesAreAbsolute(tok, tdoc.root)

\* a ported cursor inside a child at a non-zero address, pulled again
C32_WitnessChild ==
  /\ tdoc.previous # <<>>
  /\ lastOp \in {"prev", "next_preincrement", "next_postincrement"}
  /\ tok.stack # <<>>
  /\ tok.node_addr > 0
  /\ lastRet.some /\ lastRet.token.node_addr = tok.node_addr

(***************************************************************************)
(* C33: where the parent resumes when a raw step leaves a child.           *)
(***************************************************************************)
\* the state the claim gives for the parent after (forward) and before
\* (backward) the child that frame e descended into
ResumesAfter(e) ==
  LET i == e.descent.index
  IN CASE e.descent.tag = "Child" ->
            MetaContent(e.node.children[i + 1].offset + e.node.children[i + 1].node.size, i + 1)
       [] e.descent.tag = "ChildSummary" -> SummarySeparator(i)
       [] e.descent.tag = "MySummary" -> SummaryNewline

ResumesBefore(e) ==
  LET i == e.descent.index
  IN CASE e.descent.tag = "Child" -> MetaContent(e.node.children[i + 1].offset, i)
       [] e.descent.tag = "ChildSummary" -> SummaryLabel(i)
       [] e.descent.tag = "MySummary" -> Title

HeightChange(t, u) == Len(u.stack) - Len(t.stack)

\* the raw step from t to u popped the top frame of t and nothing else
Ascended(t, u) ==
  /\ HeightChange(t, u) = -1
  /\ u.stack = SubSeq(t.stack, 1, Len(t.stack) - 1)
  /\ u.node = t.stack[Len(t.stack)].node

\* C33: a raw step changes the stack height by at most one; a move_next
\* that leaves a child resumes the parent in the state right after the
\* child (Child(i): MetaContent(children[i].end(), i + 1); ChildSummary(i):
\* SummarySeparator(i); MySummary: SummaryNewline) and a move_prev that
\* leaves it resumes the parent right before it (MetaContent(
\* children[i].offset, i); SummaryLabel(i); Title).
C33_AscendResumesParent ==
  LET n == move_next(tok).tok
      p == move_prev(tok).tok
  IN /\ HeightChange(tok, n) \in {-1, 0, 1}
     /\ HeightChange(tok, p) \in {-1, 0, 1}
     /\ HeightChange(tok, n) = -1 =>
          Ascended(tok, n) /\ n.state = ResumesAfter(tok.stack[Len(tok.stack)])
     /\ HeightChange(tok, p) = -1 =>
          Ascended(tok, p) /\ p.state = ResumesBefore(tok.stack[Len(tok.stack)])

\* the cursor has walked to the End of the first of two children; the next
\* move_next leaves the child and resumes the parent at the second
C33_Witness ==
  /\ lastOp = "move_next"
  /\ tok.stack # <<>>
  /\ tok.stack[Len(tok.stack)].descent = Child(0)
  /\ Len(tok.stack[Len(tok.stack)].node.children) = 2
  /\ tok.state.tag = "End"
  /\ HeightChange(tok, move_next(tok).tok) = -1
  /\ move_next(tok).tok.state.tag = "MetaContent"
  /\ move_next(tok).tok.state.index = 1

\* the cursor stands at the start of a summarized child and a move_prev
\* leaves it for the child's label
C33_WitnessSummary ==
  /\ tok.stack # <<>>
  /\ tok.stack[Len(tok.stack)].descent.tag = "ChildSummary"
  /\ HeightChange(tok, move_prev(tok).tok) = -1
  /\ move_prev(tok).tok.state.tag = "SummaryLabel"

(***************************************************************************)
(* C34: exhaustion leaves the cursor where it is.                          *)
(***************************************************************************)
Exhausted(r, t) == ~r.ret.some /\ r.tok = t

Last(seq) == seq[Len(seq)]

\* C34: at hit_bottom() next_preincrement() and next_postincrement()
\* return None and leave the cursor exactly as it was, so that further
\* calls return None again, and prev() still returns the last token of the
\* stream; at hit_top() prev() returns None and leaves the cursor as it
\* was, and next_postincrement() still returns the first token.
C34_ExhaustionIsRepeatable ==
  /\ hit_bottom(tok) =>
       /\ Exhausted(next_preincrement(tok), tok)
       /\ Exhausted(next_postincrement(tok), tok)
       /\ Exhausted(next_postincrement(next_preincrement(tok).tok), tok)
       /\ prev(tok).ret = Some(Last(FullStream(tdoc.root)))
  /\ hit_top(tok) =>
       /\ Exhausted(prev(tok), tok)
       /\ Exhausted(prev(prev(tok).tok), tok)
       /\ next_postincrement(tok).ret = Some(FullStream(tdoc.root)[1])

\* a forward pull has just returned None at the bottom of a tree with children
C34_Witness ==
  /\ lastOp \in {"next_preincrement", "next_postincrement"}
  /\ ~lastRet.some
  /\ hit_bottom(tok)
  /\ tok.node.children # <<>>
  /\ prev(tok).ret.some

\* a prev() has just returned None at the top
C34_WitnessTop ==
  /\ lastOp = "prev"
  /\ ~lastRet.some
  /\ hit_top(tok)
  /\ next_postincrement(tok).ret.some

(***************************************************************************)
(* C35: content tokens and children partition a node.                      *)
(***************************************************************************)
\* every cursor of the raw forward walk from t on
RECURSIVE RawForward(_)
RawForward(t) ==
  <<t>> \o (IF move_next(t).ok THEN RawForward(move_next(t).tok) ELSE <<>>)

\* the extents of the content tokens the forward walk emits for the node at path
ContentExtents(root, path) ==
  LET walk == RawForward(at_beginning(root))
      IsLine(t) == t.state.tag \in {"Hexdump", "Hexstring"} /\ structure_path(t) = path
  IN [i \in 1..Len(SelectSeq(walk, IsLine)) |->
        [begin |-> SelectSeq(walk, IsLine)[i].state.begin,
         end |-> SelectSeq(walk, IsLine)[i].state.end]]

\* the nodes rendered in full: no node from the root down to them is summarized
RenderedInFull(root, path) ==
  \A k \in 0..Len(path) : NodeAt(root, SubSeq(path, 1, k)).children_display # "Summary"

Covers(b, e, a) == b <= a /\ a < e

NodeIsPartitioned(root, path) ==
  LET n == NodeAt(root, path)
      ext == ContentExtents(root, path)
      InContent(a) == { i \in 1..Len(ext) : Covers(ext[i].begin, ext[i].end, a) }
      InChild(a) == { i \in 1..Len(n.children) :
                        Covers(n.children[i].offset, Childhood_end(n.children[i]), a) }
      pp == preferred_pitch(n.content_display)
  IN /\ \A i \in 1..Len(ext) : ext[i].begin < ext[i].end /\ ext[i].end <= n.size
     /\ \A i \in 1..(Len(ext) - 1) : ext[i].end <= ext[i + 1].begin
     /\ \A a \in 0..(n.size - 1) : Cardinality(InContent(a)) + Cardinality(InChild(a)) = 1
     /\ n.content_display.kind = "Hexdump" =>
          \A i \in 1..Len(ext) : (ext[i].end - 1) \div pp[1] = ext[i].begin \div pp[1]

ContentNodes(root) ==
  { path \in AllPaths(root) :
      /\ RenderedInFull(root, path)
      /\ NodeAt(root, path).content_display.kind \in {"Hexdump", "Hexstring"} }

\* C35: for every node rendered in full with Hexdump or Hexstring content,
\* the extents of the content tokens of a forward walk are non-empty,
\* emitted in increasing address order, and together with the children's
\* extents cover each address of [0, node.size) exactly once; no Hexdump
\* extent crosses a multiple of the pitch.
C35_ContentPartitionsNode ==
  AtExtreme(tok) => \A path \in ContentNodes(tdoc.root) : NodeIsPartitioned(tdoc.root, path)

\* a forward walk has ended over a tree whose root shows three lines
\* around a child that has content of its own
C35_Witness ==
  /\ hit_bottom(tok)
  /\ lastOp = "next_postincrement"
  /\ Len(ContentExtents(tdoc.root, <<>>)) >= 3
  /\ <<0>> \in ContentNodes(tdoc.root)
  /\ Len(ContentExtents(tdoc.root, <<0>>)) >= 1
  /\ tdoc.root.children[1].offset > 0

(***************************************************************************)
(* The hierarchy view (view/hierarchy.rs): a StructureSelectionModel and a *)
(* StructureListModel follow the Document as the host changes it.  The     *)
(* Change kinds are those the two port_change functions match on; the      *)
(* effect of Nest on the tree, update_path and lookup_node are not among   *)
(* the sources and are taken from the specification.                       *)
(***************************************************************************)
Nest(path, first, last, props) ==
  [ty |-> "Nest", path |-> path, index |-> first, last |-> last, offset |-> 0,
   node |-> NoNode, props |-> props]

\* the node a Nest wraps children first..last of target into
Nested(target, first, last, props) ==
  LET at == target.children[first + 1].offset
      wrapped == SubSeq(target.children, first + 1, last + 1)
  IN Childhood(Node(<<200>>, Childhood_end(target.children[last + 1]) - at,
                    props.title_display, props.children_display, props.content_display,
                    [k \in 1..Len(wrapped) |->
                       Childhood(wrapped[k].node, wrapped[k].offset - at)]),
               at)

apply_change(change, root) ==
  IF change.ty = "Nest"
  THEN LET target == NodeAt(root, change.path)
       IN Rebuild(root, change.path,
                  [target EXCEPT !.children =
                     SubSeq(target.children, 1, change.index)
                     \o <<Nested(target, change.index, change.last, change.props)>>
                     \o SubSeq(target.children, change.last + 2, Len(target.children))])
  ELSE apply(change, root)

\* the path, after the Change, of the node that had `path` before it
update_path(path, change) ==
  LET n == Len(change.path)
      below == n < Len(path) /\ SubSeq(path, 1, n) = change.path
  IN CASE change.ty = "InsertNode" /\ below /\ path[n + 1] >= change.index ->
            [path EXCEPT ![n + 1] = @ + 1]
       [] change.ty = "Nest" /\ below /\ path[n + 1] > change.last ->
            [path EXCEPT ![n + 1] = @ - (change.last - change.index)]
       [] change.ty = "Nest" /\ below /\ path[n + 1] >= change.index ->
            change.path \o <<change.index, path[n + 1] - change.index>>
            \o SubSeq(path, n + 2, Len(path))
       [] OTHER -> path

RECURSIVE lookup_addr(_, _)
lookup_addr(node, path) ==
  IF path = <<>> THEN NULL
  ELSE node.children[path[1] + 1].offset
       + lookup_addr(node.children[path[1] + 1].node, Tail(path))

lookup_node(document, path) ==
  [node |-> NodeAt(document.root, path), addr |-> lookup_addr(document.root, path)]

(***************************************************************************)
(* SelectionMode, StructureSelectionModel                                  *)
(***************************************************************************)
SelectionEmpty == [kind |-> "Empty", path |-> <<>>, first |-> 0, last |-> 0]
Single(path) == [kind |-> "Single", path |-> path, first |-> 0, last |-> 0]
SiblingRange(path, first, last) ==
  [kind |-> "SiblingRange", path |-> path, first |-> first, last |-> last]
SelectionAll == [kind |-> "All", path |-> <<>>, first |-> 0, last |-> 0]

StructureSelectionModelInterior(mode, document) == [mode |-> mode, document |-> document]

StructureSelectionModel_port_change(interior, new_doc, change) ==
  LET m == interior.mode
      path == update_path(m.path, change)
  IN StructureSelectionModelInterior(
       CASE m.kind = "Empty" -> SelectionEmpty
         [] m.kind = "Single" -> Single(path)
         [] m.kind = "SiblingRange" ->
              (CASE change.ty = "AlterNode" -> SiblingRange(path, m.first, m.last)
                [] change.ty = "InsertNode" /\ change.path = path
                   /\ m.first <= change.index /\ change.index <= m.last ->
                     SiblingRange(path, m.first, m.last + 1)
                [] change.ty = "InsertNode" -> SiblingRange(path, m.first, m.last)
                [] change.ty = "Nest" /\ change.path = path -> Single(Append(path, m.first))
                [] change.ty = "Nest" -> SiblingRange(path, m.first, m.last))
         [] m.kind = "All" -> SelectionAll,
       new_doc)

RECURSIVE StructureSelectionModel_port_doc(_, _, _)
StructureSelectionModel_port_doc(interior, old_doc, new_doc) ==
  IF is_outdated(old_doc, new_doc)
  THEN StructureSelectionModel_port_change(
         StructureSelectionModel_port_doc(interior, old_doc, new_doc.previous[1].doc),
         new_doc, new_doc.previous[1].change)
  ELSE interior

\* is_selected for the item whose NodeInfo holds query_path
is_selected(interior, query_path) ==
  LET m == interior.mode
  IN CASE m.kind = "Empty" -> FALSE
       [] m.kind = "Single" -> query_path = m.path
       [] m.kind = "SiblingRange" ->
            /\ SubSeq(query_path, 1, Min(Len(m.path), Len(query_path))) = m.path
            /\ Len(query_path) > Len(m.path)
            /\ query_path[Len(m.path) + 1] >= m.first
            /\ query_path[Len(m.path) + 1] <= m.last
       [] m.kind = "All" -> TRUE

(***************************************************************************)
(* NodeInfo, NodeItem, StructureListModel                                  *)
(***************************************************************************)
NodeInfo(path, node, offset, address) ==
  [path |-> path, node |-> node, offset |-> offset, address |-> address]

NodeItem_new(info) == [info |-> info, staged_info |-> <<>>]

NodeItem_stage(item, info) == [item EXCEPT !.staged_info = <<info>>]

NodeItem_update(item) ==
  IF item.staged_info # <<>> THEN [info |-> item.staged_info[1], staged_info |-> <<>>]
  ELSE item

StructureListModelInterior(path, children, address, document) ==
  [path |-> path, children |-> children, address |-> address, document |-> document]

from_node_info(info, document) ==
  StructureListModelInterior(
    info.path,
    [k \in 1..Len(info.node.children) |->
       NodeItem_new(NodeInfo(Append(info.path, k - 1), info.node.children[k].node,
                             info.node.children[k].offset,
                             info.address + info.node.children[k].offset))],
    info.address, document)

\* the call items_changed(position, removed, added) of gio::ListModel
ItemsChanged(position, removed, added) ==
  [position |-> position, removed |-> removed, added |-> added]

\* mutant: the numbers of removed and added items change places
items_changed_swapped(tuple) == ItemsChanged(tuple[1], tuple[3], tuple[2])

\* if let Some((index, added, removed)) = items_changed
\*   { self.items_changed(index, added, removed) }
items_changed(tuple) == ItemsChanged(tuple[1], tuple[2], tuple[3])

\* port_change yields [interior, emitted]: the interior it leaves and the
\* items_changed calls it makes
StructureListModel_port_change(i, new_doc, change) ==
  LET path == update_path(i.path, change)
      found == lookup_node(new_doc, path)
      new_node == found.node
      addr == found.addr
      Item(index) ==
        NodeItem_new(NodeInfo(<<>>, new_node.children[index + 1].node,
                              new_node.children[index + 1].offset,
                              addr + new_node.children[index + 1].offset))
      r == CASE change.ty = "AlterNode" /\ Len(path) + 1 = Len(change.path)
                /\ SubSeq(change.path, 1, Len(path)) = path ->
                  LET index == change.path[Len(path) + 1]
                      ch == new_node.children[index + 1]
                  IN [children |->
                        [i.children EXCEPT ![index + 1] =
                           NodeItem_stage(@, NodeInfo(change.path, ch.node, ch.offset,
                                                      addr + ch.offset))],
                      items_changed |-> <<>>]
             [] change.ty = "InsertNode" /\ change.path = path ->
                  [children |-> InsertAt(i.children, change.index, Item(change.index)),
                   items_changed |-> <<<<change.index, 0, 1>>>>]
             [] change.ty = "Nest" /\ change.path = path ->
                  [children |-> SubSeq(i.children, 1, change.index)
                                \o <<Item(change.index)>>
                                \o SubSeq(i.children, change.last + 2, Len(i.children)),
                   items_changed |-> <<<<change.index, change.last - change.index + 1, 1>>>>]
             [] OTHER -> [children |-> i.children, items_changed |-> <<>>]
      fixed == [k \in 1..Len(r.children) |->
                  [r.children[k] EXCEPT !.info.path = Append(path, k - 1)]]
  IN [interior |-> StructureListModelInterior(path, fixed, addr, new_doc),
      emitted |-> IF r.items_changed = <<>> THEN <<>>
                  ELSE <<items_changed(r.items_changed[1])>>]

RECURSIVE StructureListModel_port_doc(_, _, _)
StructureListModel_port_doc(i, old_doc, new_doc) ==
  IF is_outdated(old_doc, new_doc)
  THEN LET before == StructureListModel_port_doc(i, old_doc, new_doc.previous[1].doc)
           after == StructureListModel_port_change(before.interior, new_doc,
                                                   new_doc.previous[1].change)
       IN [interior |-> after.interior, emitted |-> before.emitted \o after.emitted]
  ELSE [interior |-> i, emitted |-> <<>>]

StructureListModel_update(i, new_doc) ==
  LET ported == StructureListModel_port_doc(i, i.document, new_doc)
  IN [interior |-> [ported.interior EXCEPT !.children =
                      [k \in 1..Len(@) |-> NodeItem_update(@[k])]],
      emitted |-> ported.emitted]

(***************************************************************************)
(* The state machine of the hierarchy view: the host changes the Document, *)
(* and the subscribers of the selection model and of the list model are    *)
(* called with the newest Document, each in its own time.                  *)
(***************************************************************************)
MaxEdits == 1

HierarchyTrees ==
  { Label(MkNode(StyleA, 4,
                 <<Childhood(MkNode(StyleB, 1, <<>>), 0),
                   Childhood(MkNode(StyleA, 2, <<Childhood(MkNode(StyleB, 1, <<>>), 0),
                                                 Childhood(MkNode(StyleB, 1, <<>>), 1)>>), 1),
                   Childhood(MkNode(StyleB, 1, <<>>), 3)>>), <<>>) }

HierarchyProps == Style("Minor", "Summary", ContentHexstring)

Ranges(node) ==
  { <<first, last>> \in (0..(Len(node.children) - 1)) \X (0..(Len(node.children) - 1)) :
      first <= last }

HierarchyChanges(root) ==
  { AlterNode(path, HierarchyProps) : path \in AllPaths(root) }
  \cup { c \in Changes(root) : c.ty = "InsertNode" /\ c.node.name = <<101>> }
  \cup UNION { { Nest(path, r[1], r[2], HierarchyProps) : r \in Ranges(NodeAt(root, path)) }
               : path \in AllPaths(root) }

SelectionModes(root) ==
  {SelectionEmpty, SelectionAll}
  \cup { Single(path) : path \in AllPaths(root) \ {<<>>} }
  \cup UNION { { SiblingRange(path, r[1], r[2]) : r \in Ranges(NodeAt(root, path)) }
               : path \in AllPaths(root) }

InitHierarchy ==
  \E root \in HierarchyTrees :
    /\ doc = Document(root, <<>>)
    /\ tdoc = doc
    /\ tok = at_beginning(root)
    /\ lastOp = "new"
    /\ lastRet = None
    /\ \E mode \in SelectionModes(root) :
         selection = StructureSelectionModelInterior(mode, doc)
    /\ \E path \in AllPaths(root) :
         list_model = from_node_info(NodeInfo(path, NodeAt(root, path), NULL,
                                              lookup_addr(root, path)), doc)
    /\ signal = <<>>

HostChange ==
  /\ ChainLen(doc) < MaxEdits
  /\ \E change \in HierarchyChanges(doc.root) :
       doc' = Document(apply_change(change, doc.root), <<[doc |-> doc, change |-> change]>>)
  /\ lastOp' = "change"
  /\ UNCHANGED <<tok, tdoc, lastRet, selection, list_model, signal>>

SelectionUpdate ==
  /\ selection.document # doc
  /\ selection' = StructureSelectionModel_port_doc(selection, selection.document, doc)
  /\ lastOp' = "selection_update"
  /\ UNCHANGED <<tok, tdoc, doc, lastRet, list_model, signal>>

ListModelUpdate ==
  /\ list_model.document # doc
  /\ list_model' = StructureListModel_update(list_model, doc).interior
  /\ signal' = StructureListModel_update(list_model, doc).emitted
  /\ lastOp' = "list_model_update"
  /\ UNCHANGED <<tok, tdoc, doc, lastRet, selection>>

NextHierarchy == HostChange \/ SelectionUpdate \/ ListModelUpdate

SpecHierarchy == InitHierarchy /\ [][NextHierarchy]_vars

(***************************************************************************)
(* C36: a sibling range selection ported across an InsertNode.             *)
(***************************************************************************)
\* the selection model is one Change behind the Document, and that Change
\* inserts a node among the siblings its SiblingRange selects from
InsertIntoSelectedParent ==
  /\ selection.mode.kind = "SiblingRange"
  /\ doc.previous # <<>>
  /\ doc.previous[1].doc = selection.document
  /\ doc.previous[1].change.ty = "InsertNode"
  /\ doc.previous[1].change.path = selection.mode.path

\* where the sibling that had index s is after the insertion
SiblingAfter(s, change) == IF s >= change.index THEN s + 1 ELSE s

SiblingsOf(interior) ==
  0..(Len(NodeAt(interior.document.root, interior.mode.path).children) - 1)

\* every sibling there was before the insertion is selected after the
\* update exactly if it was selected before
SelectionKept ==
  \A s \in SiblingsOf(selection) :
    is_selected(selection, Append(selection.mode.path, s))
      = is_selected(selection', Append(selection'.mode.path,
                                       SiblingAfter(s, doc.previous[1].change)))

\* C36: porting SiblingRange(path, first, last) across an InsertNode into
\* that parent keeps every selected sibling selected and selects no
\* sibling that was there before and was not selected, whatever the
\* insertion index is.
C36_SelectedSiblingsStaySelected ==
  [][(SelectionUpdate /\ InsertIntoSelectedParent) => SelectionKept]_vars

\* the same for an insertion at or behind the first selected sibling
C36_InsertionNotBeforeRange ==
  [][(SelectionUpdate /\ InsertIntoSelectedParent
        /\ doc.previous[1].change.index >= selection.mode.first) => SelectionKept]_vars

(***************************************************************************)
(* C37: the list model's items after port_change.                          *)
(***************************************************************************)
\* the items of interior i correspond, in number and by path, to the
\* children of the node at i.path in i.document
ItemsMatchChildren(i) ==
  /\ Len(i.children) = Len(NodeAt(i.document.root, i.path).children)
  /\ \A k \in 1..Len(i.children) : i.children[k].info.path = Append(i.path, k - 1)

\* the nodes the items of a list stand for, in order
ItemNodes(children) == [k \in 1..Len(children) |-> children[k].info.node]

\* the emitted items_changed calls turn the list `old` into the list `new`:
\* without a call the list is as it was; with a call the items in front of
\* position and those behind the removed ones are kept, and the added
\* items stand for the children the node has there
NotificationTurns(old, new, emitted, node) ==
  IF emitted = <<>> THEN ItemNodes(new) = ItemNodes(old)
  ELSE LET e == emitted[1]
       IN /\ Len(emitted) = 1
          /\ e.position + e.removed <= Len(old)
          /\ Len(new) = Len(old) - e.removed + e.added
          /\ SubSeq(ItemNodes(new), 1, e.position) = SubSeq(ItemNodes(old), 1, e.position)
          /\ SubSeq(ItemNodes(new), e.position + e.added + 1, Len(new))
               = SubSeq(ItemNodes(old), e.position + e.removed + 1, Len(old))
          /\ \A k \in (e.position + 1)..(e.position + e.added) :
               new[k].info.node = node.children[k].node

\* the list model is exactly one Change behind the Document
OneChangeBehind ==
  /\ doc.previous # <<>>
  /\ doc.previous[1].doc = list_model.document

\* C37: after StructureListModel::port_change for an AlterNode, InsertNode
\* or Nest change the model has one item per child of the node at its
\* updated path in the new Document, item k has the model's path followed
\* by k, and the items_changed call reports the position, the number of
\* removed and the number of added items that turn the old list into the
\* new one.
C37_ItemsFollowChange ==
  /\ list_model.document # doc =>
       ItemsMatchChildren(StructureListModel_port_doc(list_model, list_model.document, doc).interior)
  /\ OneChangeBehind =>
       LET ported == StructureListModel_port_change(list_model, doc, doc.previous[1].change)
       IN NotificationTurns(list_model.children, ported.interior.children, ported.emitted,
                            NodeAt(doc.root, ported.interior.path))
  /\ (lastOp = "list_model_update" /\ ChainLen(doc) = 1) =>
       /\ ItemsMatchChildren(list_model)
       /\ list_model.document = doc

\* the list model of the root has replaced two items by the one that
\* stands for the node a Nest wrapped them into
C37_Witness ==
  /\ lastOp = "list_model_update"
  /\ doc.previous[1].change.ty = "Nest"
  /\ signal = <<ItemsChanged(0, 2, 1)>>
  /\ list_model.path = <<>>
  /\ Len(list_model.children) = 2
  /\ list_model.children[1].info.node.name = <<200>>
  /\ ItemsMatchChildren(list_model)

\* a list model below the nested range has moved to its new path
C37_WitnessMoved ==
  /\ lastOp = "list_model_update"
  /\ doc.previous[1].change.ty = "Nest"
  /\ list_model.path = <<0, 1>>
  /\ Len(list_model.children) = 2
  /\ signal = <<>>
  /\ ItemsMatchChildren(list_model)

(***************************************************************************)
(* C38: the child index and offset of a content state.                     *)
(***************************************************************************)
\* in MetaContent(offset, i) begin and end are both the offset; in
\* Hexdump(extent, i) and Hexstring(extent, i) they are the extent's ends
ContentStateInBounds(t) ==
  LET s == t.state
      ch == t.node.children
  IN /\ s.index <= Len(ch)
     /\ 0 <= s.begin /\ s.begin <= s.end /\ s.end <= t.node.size
     /\ \A k \in 1..Len(ch) : k <= s.index => Childhood_end(ch[k]) <= s.begin
     /\ \A k \in 1..Len(ch) : k > s.index => ch[k].offset >= s.end

\* C38: whenever a walk leaves the cursor in MetaContent(offset, i),
\* Hexdump(extent, i) or Hexstring(extent, i), i is at most the number of
\* children, the offset or extent lies within [0, node.size], every child
\* with an index below i ends at or before the offset (the extent's begin)
\* and every child with index i or above begins at or after the offset
\* (the extent's end).
C38_ContentStateInBounds ==
  tok.state.tag \in ContentStates => ContentStateInBounds(tok)

\* a raw step has left the cursor on a line between two children
C38_Witness ==
  /\ lastOp \in {"move_next", "move_prev"}
  /\ tok.state.tag \in {"Hexdump", "Hexstring"}
  /\ Len(tok.node.children) = 2
  /\ tok.state.index = 1
  /\ tok.state.begin < tok.state.end
  /\ ContentStateInBounds(tok)

(***************************************************************************)
(* C39: raw steps against each other.                                      *)
(***************************************************************************)
NextThenPrevRestores(t) ==
  move_next(t).ok => move_prev(move_next(t).tok) = [ok |-> TRUE, tok |-> t]

PrevThenNextRestores(t) ==
  move_prev(t).ok => move_next(move_prev(t).tok) = [ok |-> TRUE, tok |-> t]

\* C39: from every reachable cursor where move_next returns true, a
\* move_prev right after it returns true and restores the identical cursor
\* (state, node, address, depth, stack), and the same for move_prev
\* followed by move_next.
C39_RawStepsAreInverse == NextThenPrevRestores(tok) /\ PrevThenNextRestores(tok)

\* the cursor is in a child that its parent shows in summary mode
InSummarizedChild(t) ==
  /\ t.stack # <<>>
  /\ t.stack[Len(t.stack)].descent.tag = "ChildSummary"

\* ... and the child has children of its own, so that its value is a
\* nested SummaryOpener .. SummaryCloser
InNestedSummary(t) == InSummarizedChild(t) /\ Len(t.node.children) > 0

\* what does hold of move_next (532-665) and move_prev (389-528): the two
\* raw steps undo each other from every cursor that is not inside a
\* summarized child with children
C39_InverseOutsideNestedSummary ==
  ~InNestedSummary(tok) =>
    NextThenPrevRestores(tok) /\ PrevThenNextRestores(tok)

\* a raw step has just entered a childless summarized child and the step
\* back leaves it again
C39_WitnessOutside ==
  /\ lastOp \in {"move_next", "move_prev"}
  /\ InSummarizedChild(tok) /\ ~InNestedSummary(tok)
  /\ tok.state.tag = "SummaryValueBegin"
  /\ move_next(tok).ok /\ move_prev(tok).ok

(***************************************************************************)
(* C40: the visit of a child in summary mode.                              *)
(***************************************************************************)
LeavesForward(t) ==
  InSummarizedChild(t) /\ move_next(t).ok /\ HeightChange(t, move_next(t).tok) = -1

LeavesBackward(t) ==
  InSummarizedChild(t) /\ move_prev(t).ok /\ HeightChange(t, move_prev(t).tok) = -1

\* C40: every visit of a child in summary mode runs from SummaryValueBegin
\* to SummaryValueEnd: the move_next that resumes the parent at
\* SummarySeparator(i) leaves the child from SummaryValueEnd, and the
\* move_prev that resumes the parent at SummaryLabel(i) leaves it from
\* SummaryValueBegin, for childless children and for children that have
\* children themselves.
C40_SummaryVisitIsBracketed ==
  /\ LeavesForward(tok) => tok.state.tag = "SummaryValueEnd"
  /\ LeavesBackward(tok) => tok.state.tag = "SummaryValueBegin"

\* the part that holds: a childless child is left from SummaryValueEnd
\* forward and from SummaryValueBegin backward
C40_ChildlessVisitIsBracketed ==
  (InSummarizedChild(tok) /\ ~InNestedSummary(tok)) =>
    /\ LeavesForward(tok) => tok.state.tag = "SummaryValueEnd"
    /\ LeavesBackward(tok) => tok.state.tag = "SummaryValueBegin"

\* a forward step has reached SummaryValueEnd of a childless summarized
\* child, from where the next one resumes the parent
C40_WitnessChildless ==
  /\ lastOp = "move_next"
  /\ InSummarizedChild(tok) /\ ~InNestedSummary(tok)
  /\ tok.state.tag = "SummaryValueEnd"
  /\ LeavesForward(tok)

====
